---------------------------- MODULE Spec2Model ----------------------------
(***************************************************************************)
(* A model of ironswarm: the LWW-element-set CRDT, the work partitioning   *)
(* and the resolve loop of the ScenarioManager, the Scheduler, the metric  *)
(* collector, and the dealer/router gossip of the nodes.                   *)
(*                                                                         *)
(* The module holds several specifications over one set of variables.     *)
(* Each specification drives one group of variables and leaves the other  *)
(* groups at their idle values:                                            *)
(*   SpecVolume  node_target_volume applied to bounded inputs              *)
(*   SpecWork    ScenarioManager.work() on every node of a cluster         *)
(*   SpecLateJoin  SpecWork with constant and ramped volume models        *)
(*   SpecRecycle   SpecWork with a RecyclableDatapool                      *)
(*   SpecResolve   one node's resolve loop and spawn_journeys tasks on a   *)
(*                 clock of whole seconds; FairResolve adds weak fairness  *)
(*                 of the event loop                                       *)
(*   SpecScheduler  Scheduler.run, the managers' tasks and shutdown() on   *)
(*                 one node; FairScheduler is the scheduler that is never  *)
(*                 shut down, under weak fairness of every task            *)
(*   SpecMetrics   inc / observe / record_event against snapshot(reset)    *)
(*   SpecLWW     add / remove / lookup / keys / values / merge on one set  *)
(*   SpecMerge   merge applied to three sets in the orders compared        *)
(*   SpecGossip  two nodes: bind, run, gossip rounds, the web API's        *)
(*               post_scenario, shutdown                                   *)
(*   FairGossip  two nodes that never stop and get no web request: bind,   *)
(*               run, gossip rounds, scheduler polls, under weak fairness  *)
(*               of every task                                             *)
(*   SpecRouter  one node's listen loop fed by an outside sender           *)
(*   SpecWire    serialize_lww and deserialize_lww on bounded sets         *)
(*   SpecPool    checkout of the four datapools on one file of lines       *)
(*   SpecVolumeModel  VolumeModel and DynamicVolumeModel called once       *)
(*   SpecRegister  Node.count and Node.index over a changing register      *)
(*   SpecClock   resolve() and _resolve() with each read of the clock a    *)
(*               step of its own                                           *)
(*   SpecCursor  work() over one node's history of live-set views          *)
(*   SpecSpawn   one spawn_journeys call, its journey tasks and Contexts   *)
(*   SpecCounters  MetricCollector.inc against snapshot(), counter by      *)
(*               counter                                                   *)
(***************************************************************************)
EXTENDS Integers, Sequences, FiniteSets, TLC

(***************************************************************************)
(* Bounds of the model.                                                    *)
(***************************************************************************)
MaxNodeCount == 4      \* node_count of SpecVolume ranges over 1..MaxNodeCount
MaxTarget == 7         \* target_volume of SpecVolume ranges over 0..MaxTarget
MaxOffset == 5         \* journey_offset of SpecVolume ranges over 0..MaxOffset

MaxNodes == 3          \* cluster size of SpecWork ranges over 1..MaxNodes
MaxVolume == 2         \* VolumeModel.target of SpecWork ranges over 1..MaxVolume
MaxDuration == 3       \* VolumeModel.duration ranges over 1..MaxDuration (from 0 in SpecResolve)
MaxInterval == 2       \* Scenario.interval of SpecWork ranges over 1..MaxInterval
MaxIncs == 3           \* inc() calls the writer thread of SpecCounters makes
MaxSnaps == 2          \* snapshot() calls the reader thread of SpecCounters makes
MaxChunk == 2          \* items in the datapool_chunk of SpecSpawn range over 0..MaxChunk
MaxSeparation == 4     \* journey_separation of SpecSpawn, in half seconds, ranges over 1..MaxSeparation
MaxPool == 5           \* len(datapool) of SpecWork ranges over 0..MaxPool
MaxHash == 1           \* hash(journey.spec) of a process ranges over 0..MaxHash

MaxTime == 2           \* time.time() ranges over 1..MaxTime

MaxQueue == 2          \* requests a router holds unread
MaxApi == 1            \* HTTP requests the web API of a node serves
MaxInject == 2         \* requests the outside sender of SpecRouter sends
MaxBoot == 1           \* length of a node's --bootstrap list

MaxDelay == 3          \* Scenario.delay of SpecResolve ranges over 0..MaxDelay
MaxLatency == 1        \* whole seconds from init_time to the scheduler's poll
MaxRamp == 1           \* ramp_up and ramp_down of SpecLateJoin range over 0..MaxRamp
MaxBg == 1             \* background tasks one ScenarioManager holds at a time
MaxObs == 3            \* observations the metric writers of SpecMetrics make
MaxDrift == 1          \* whole seconds the sleeps of one spawn_journeys add up late
\* serialization.py: the width of a msgpack integer (64) and the limits
\* MAX_MESSAGE_SIZE (10 MiB), MAX_COLLECTION_SIZE (100 000),
\* MAX_STRING_LENGTH (10 KiB), scaled; MAX_METADATA_KEYS as in the source
WireBits == 8
MAX_MESSAGE_SIZE == 200
MAX_COLLECTION_SIZE == 2
MAX_METADATA_KEYS == 50
MAX_STRING_LENGTH == 40
MaxLines == 4          \* the lines of SpecPool's file range over 1..MaxLines
LINE_INTERVAL == 2     \* file_datapool.py: the 1_000_000 lines between index points
MaxVmTarget == 3       \* target of SpecVolumeModel ranges over 1..MaxVmTarget
MaxVmDuration == 6     \* its duration and ramp_down over 0..MaxVmDuration
MaxVmRamp == 3         \* its ramp_up over 0..MaxVmRamp
MaxRegTime == 2        \* timestamps of SpecRegister range over 1..MaxRegTime
TicksPerInterval == 2  \* ticks of the clock of SpecClock in one scenario.interval
SeparationTicks == 1   \* journey_separation in ticks
EarlyWake == 1         \* ticks of time.time() a sleep may end before its target
MaxTick == 9           \* the last tick the clock of SpecClock reaches

VARIABLES
    ntv,                \* SpecVolume: the call of node_target_volume under way
    sc,                 \* SpecWork: the scenario and the cluster it runs on
    hashv,              \* SpecWork: hash(journey.spec) in each node's process
    widx,               \* SpecWork: the work index the wall clock is in
    dpIndex,            \* SpecWork: journey.datapool.index on each node
    journeys_complete,  \* SpecWork: ScenarioManager.journeys_complete[journey]
    smRunning,          \* SpecWork: ScenarioManager.running
    work_resolved,      \* SpecWork: ScenarioManager.work_resolved
    checkedOut,         \* SpecWork: positions each node has checked out
    subvols,            \* SpecWork: subint_volumes each node built, per index
    disc,               \* SpecResolve: Scenario.delay and the discovery latency
    elapsed,            \* SpecResolve: floor of ScenarioManager.elapsed
    rwake,              \* SpecResolve: elapsed second at which resolve() wakes
    spawnTasks,         \* SpecResolve: the spawn_journeys tasks not yet returned
    total_spawned_journeys, \* SpecResolve: ScenarioManager.total_spawned_journeys
    highSpawn,          \* SpecResolve: the latest (index, sub-interval) spawned
    entries,            \* SpecScheduler: keys present in node.state["scenarios"]
    addLeft,            \* SpecScheduler: specs no client has added yet
    sched,              \* SpecScheduler: Scheduler.running and the run() task
    scenarios,          \* SpecScheduler: Scheduler.scenarios
    scenario_managers,  \* SpecScheduler: Scheduler.scenario_managers, by spec
    scenario_tasks,     \* SpecScheduler: the keys of Scheduler._scenario_tasks
    mgr,                \* SpecScheduler: the ScenarioManager of each spec
    sh,                 \* SpecScheduler: the position of Scheduler.shutdown()
    obsCount,           \* SpecMetrics: observations made so far, numbered in order
    counterObs,         \* SpecMetrics: observations held by the counter family
    histObs,            \* SpecMetrics: observations held by the histogram family
    eventObs,           \* SpecMetrics: observations held in MetricCollector._events
    snap,               \* SpecMetrics: the position and the result of snapshot()
    now,                \* time.time()
    lww,                \* SpecLWW: the LWWElementSet operated on
    ret,                \* SpecLWW: what the last lookup()/keys() returned
    mset,               \* SpecMerge: the sets A, B, C and the accumulators
    mpc,                \* SpecMerge: how many merges have been applied
    gstate,             \* gossip: Node.state of each node, key -> LWWElementSet
    life,               \* gossip: where each node is in bind / run / shutdown
    task,               \* gossip: the coroutines of each node that call send()
    listening,          \* gossip: the listen() task of each node is alive
    connected,          \* gossip: ZMQTransport._connected_sockets of each node
    routerIn,           \* gossip: requests queued at each node's ROUTER socket
    dealerIn,           \* gossip: replies queued at each node's DEALER socket
    boot,               \* gossip: Node.bootstrap_nodes of each node
    apiLeft,            \* gossip: HTTP requests each node's web API may still get
    extIn,              \* SpecRouter: replies the outside sender has received
    injLeft,            \* SpecRouter: requests the outside sender may still send
    wire,               \* SpecWire: a set, its serialize_lww and deserialize_lww
    dp,                 \* SpecPool: a datapool and the checkout made on it
    vm,                 \* SpecVolumeModel: a volume model and the call made on it
    nreg,               \* SpecRegister: a Node's node_register and its caches
    rs,                 \* SpecClock: a ScenarioManager and the clock it reads
    cview,              \* SpecCursor: one node's history of work() calls
    ctx,                \* SpecSpawn: the Contexts one spawn_journeys constructs
    sp,                 \* SpecSpawn: one spawn_journeys call and its pace
    mc                  \* SpecCounters: a MetricCollector's counters and a snapshot

volVars == <<ntv>>
workVars == <<sc, hashv, widx, dpIndex, journeys_complete, smRunning,
              work_resolved, checkedOut, subvols>>
resolveVars == <<disc, elapsed, rwake, spawnTasks, total_spawned_journeys,
                 highSpawn>>
schedVars == <<entries, addLeft, sched, scenarios, scenario_managers,
               scenario_tasks, mgr, sh>>
metricVars == <<obsCount, counterObs, histObs, eventObs, snap>>
lwwVars == <<lww, ret>>
mergeVars == <<mset, mpc>>
gossipVars == <<gstate, life, task, listening, connected, routerIn, dealerIn,
                boot, apiLeft, extIn, injLeft>>
lateVars == <<cview, ctx, sp, mc>>
pureVars == <<wire, dp, vm, nreg, rs, lateVars>>
vars == <<ntv, sc, hashv, widx, dpIndex, journeys_complete, smRunning,
          work_resolved, checkedOut, subvols, disc, elapsed, rwake, spawnTasks,
          total_spawned_journeys, highSpawn, entries, addLeft, sched,
          scenarios, scenario_managers, scenario_tasks, mgr, sh,
          obsCount, counterObs, histObs, eventObs, snap,
          now, lww, ret, mset, mpc,
          gstate, life, task, listening, connected, routerIn, dealerIn,
          boot, apiLeft, extIn, injLeft, wire, dp, vm, nreg, rs,
          cview, ctx, sp, mc>>

(***************************************************************************)
(* Helpers.                                                                *)
(***************************************************************************)
RECURSIVE SumSeq(_)
SumSeq(s) == IF s = <<>> THEN 0 ELSE Head(s) + SumSeq(Tail(s))

RECURSIVE SumOver(_, _)
SumOver(f, S) ==
    IF S = {} THEN 0
    ELSE LET x == CHOOSE y \in S : TRUE IN f[x] + SumOver(f, S \ {x})

Min(a, b) == IF a <= b THEN a ELSE b

(***************************************************************************)
(* scenario_manager.py: node_target_volume                                 *)
(***************************************************************************)
\* The wraparound branch taken with "and" in place of "or".
NodeTargetVolumeAndWrap(node_index, node_count, target_volume, journey_offset) ==
    IF target_volume = 0 THEN 0
    ELSE IF node_index >= node_count THEN 0
    ELSE LET base_volume == target_volume \div node_count
             remainder == target_volume % node_count
             remainder_start == journey_offset % node_count
             remainder_end == (remainder_start + remainder) % node_count
             node_gets_remainder ==
                 IF remainder_end > remainder_start
                 THEN remainder_start <= node_index /\ node_index < remainder_end
                 ELSE node_index >= remainder_start /\ node_index < remainder_end
         IN  IF remainder > 0 /\ node_gets_remainder
             THEN base_volume + 1
             ELSE base_volume

\* The remainder window started at node 0 whatever the journey offset.
NodeTargetVolumeNoOffset(node_index, node_count, target_volume, journey_offset) ==
    IF target_volume = 0 THEN 0
    ELSE IF node_index >= node_count THEN 0
    ELSE LET base_volume == target_volume \div node_count
             remainder == target_volume % node_count
         IN  IF remainder > 0 /\ node_index < remainder
             THEN base_volume + 1
             ELSE base_volume

NodeTargetVolume(node_index, node_count, target_volume, journey_offset) ==
    IF target_volume = 0 THEN 0
    ELSE IF node_index >= node_count THEN 0
    ELSE LET base_volume == target_volume \div node_count
             remainder == target_volume % node_count
             remainder_start == journey_offset % node_count
             remainder_end == (remainder_start + remainder) % node_count
             node_gets_remainder ==
                 IF remainder_end > remainder_start
                 THEN remainder_start <= node_index /\ node_index < remainder_end
                 ELSE node_index >= remainder_start \/ node_index < remainder_end
         IN  IF remainder > 0 /\ node_gets_remainder
             THEN base_volume + 1
             ELSE base_volume

(***************************************************************************)
(* SpecVolume: node_target_volume is called for node 0, 1, ... of one      *)
(* (node_count, target_volume, journey_offset), as the loop of work() does.*)
(***************************************************************************)
VolIdle == [node_count |-> 1, target_volume |-> 0, journey_offset |-> 0,
            results |-> <<>>]

VolInit ==
    \E c \in 1..MaxNodeCount, t \in 0..MaxTarget, o \in 0..MaxOffset :
        ntv = [node_count |-> c, target_volume |-> t, journey_offset |-> o,
               results |-> <<>>]

\* one iteration of "for node_index in range(self.node.count)"
VolCall ==
    /\ Len(ntv.results) < ntv.node_count
    /\ ntv' = [ntv EXCEPT !.results =
                 Append(@, NodeTargetVolume(Len(ntv.results), ntv.node_count,
                                            ntv.target_volume, ntv.journey_offset))]

(***************************************************************************)
(* volumemodel.py: VolumeModel (constant target, optional duration) and    *)
(* DynamicVolumeModel (sc.dynamic; ramp_up and ramp_down are 0 for None,   *)
(* which __init__ and the truth tests of __call__ treat alike).            *)
(***************************************************************************)
\* math.ceil(a / b) for a >= 0, b > 0
CeilDiv(a, b) == (a + b - 1) \div b

\* VolumeModel.__call__ raises JourneyComplete
VolumeComplete(time_delta) == sc.duration # 0 /\ time_delta >= sc.duration

\* DynamicVolumeModel._ramp_up and _ramp_down
RampUp(time_delta) == CeilDiv(sc.target * time_delta, sc.ramp_up)
RampDown(time_delta) ==
    CeilDiv(sc.target * (sc.duration - time_delta), sc.duration - sc.ramp_down)

\* __call__ when it does not raise: self.target, or the ramp value
VolumeTarget(time_delta) ==
    IF sc.dynamic /\ sc.ramp_up # 0 /\ time_delta <= sc.ramp_up
    THEN RampUp(time_delta)
    ELSE IF sc.dynamic /\ sc.ramp_down # 0 /\ time_delta >= sc.ramp_down
         THEN RampDown(time_delta)
         ELSE sc.target

\* the constant formula with the window one second short
CumulativeVolumeShort(start_time, end_time) ==
    IF end_time < start_time THEN 0
    ELSE sc.target * (end_time - start_time)

\* cumulative_volume: target * time_range for VolumeModel; the sum of
\* self(t) up to the first JourneyComplete for DynamicVolumeModel
CumulativeVolume(start_time, end_time) ==
    IF end_time < start_time THEN 0
    ELSE IF sc.dynamic
         THEN LET S == {t \in start_time..end_time : ~VolumeComplete(t)}
              IN  SumOver([t \in S |-> VolumeTarget(t)], S)
         ELSE sc.target * (end_time - start_time + 1)

(***************************************************************************)
(* datapools/iterable_datapool.py: checkout(start, stop) is the slice      *)
(* _items[start:stop]; here the positions it covers, in order.  work()     *)
(* calls it with 0 <= start <= len and start <= stop only.                 *)
(***************************************************************************)
IterableCheckout(len, start, stop) ==
    [p \in 1..(Min(stop, len) - Min(start, len)) |-> start + p - 1]

(***************************************************************************)
(* datapools/recyclable_datapool.py: checkout(start, stop) for start <=    *)
(* len is chain(_items[start:], _items[:stop]) when stop < start, and the  *)
(* slice _items[start:stop] otherwise.                                     *)
(***************************************************************************)
RecyclableCheckout(len, start, stop) ==
    IF stop < start
    THEN [p \in 1..(len - start) |-> start + p - 1]
             \o [p \in 1..Min(stop, len) |-> p - 1]
    ELSE [p \in 1..(Min(stop, len) - Min(start, len)) |-> start + p - 1]

\* journey.datapool.checkout of the scenario's pool
DatapoolCheckout(len, start, stop) ==
    IF sc.recyclable THEN RecyclableCheckout(len, start, stop)
    ELSE IterableCheckout(len, start, stop)

(***************************************************************************)
(* SpecWork: one scenario of one journey with a constant VolumeModel and   *)
(* an IterableDatapool, run by every node of a cluster whose members all   *)
(* see the same live set.  Node n is the process whose Node.index is n.    *)
(***************************************************************************)
NodeIdx == 0..(MaxNodes - 1)
Live == 0..(sc.count - 1)

\* the last work index the clock of the model reaches
WorkHorizon == (sc.duration \div sc.interval) + 1

\* Node.count and Node.index as node n sees them
NodeCountOf(n) == sc.count
NodeIndexOf(n) == n

\* journey_offset = hash(journey.spec) % self.node.count, in n's process
JourneyOffset(n) == hashv[n] % NodeCountOf(n)

\* the sub-seconds i of work index k reached before JourneyComplete breaks
SubSeconds(k) ==
    {i \in 0..(sc.interval - 1) :
        \A j \in 0..i : ~VolumeComplete(k * sc.interval + j)}

CompleteHit(k) ==
    \E i \in 0..(sc.interval - 1) : VolumeComplete(k * sc.interval + i)

\* node_total_journeys as node n computes it for work index k
NodeTotalJourneys(n, k) ==
    [node_index \in 0..(NodeCountOf(n) - 1) |->
        SumOver([i \in SubSeconds(k) |->
                    NodeTargetVolume(node_index, NodeCountOf(n),
                                     VolumeTarget(k * sc.interval + i),
                                     JourneyOffset(n))],
                SubSeconds(k))]

\* subinterval_volumes as node n computes it for work index k
SubintervalVolumes(n, k) ==
    [p \in 1..Cardinality(SubSeconds(k)) |->
        NodeTargetVolume(NodeIndexOf(n), NodeCountOf(n),
                         VolumeTarget(k * sc.interval + p - 1), JourneyOffset(n))]

WorkIdle ==
    /\ sc = [count |-> 1, target |-> 1, duration |-> 1, interval |-> 1, dplen |-> 0,
             dynamic |-> FALSE, ramp_up |-> 0, ramp_down |-> 0,
             recyclable |-> FALSE]
    /\ hashv = [n \in NodeIdx |-> 0]
    /\ widx = 0
    /\ dpIndex = [n \in NodeIdx |-> 0]
    /\ journeys_complete = [n \in NodeIdx |-> -1]
    /\ smRunning = [n \in NodeIdx |-> FALSE]
    /\ work_resolved = [n \in NodeIdx |-> {}]
    /\ checkedOut = [n \in NodeIdx |-> <<>>]
    /\ subvols = [n \in NodeIdx |-> <<>>]

WorkInit ==
    /\ \E c \in 1..MaxNodes, t \in 1..MaxVolume, d \in 1..MaxDuration,
          iv \in 1..MaxInterval, l \in 0..MaxPool :
          sc = [count |-> c, target |-> t, duration |-> d, interval |-> iv,
                dplen |-> l, dynamic |-> FALSE, ramp_up |-> 0, ramp_down |-> 0,
             recyclable |-> FALSE]
    /\ hashv \in [NodeIdx -> 0..MaxHash]
    /\ \A n \in NodeIdx : n >= sc.count => hashv[n] = 0
    /\ widx = 0
    /\ dpIndex = [n \in NodeIdx |-> 0]
    /\ journeys_complete = [n \in NodeIdx |-> -1]
    /\ smRunning = [n \in NodeIdx |-> n < sc.count]
    /\ work_resolved = [n \in NodeIdx |-> {}]
    /\ checkedOut = [n \in NodeIdx |-> <<>>]
    /\ subvols = [n \in NodeIdx |-> <<>>]

\* SpecRecycle: as SpecWork, with a RecyclableDatapool
RecycleInit ==
    /\ \E c \in 1..MaxNodes, t \in 1..MaxVolume, d \in 1..MaxDuration,
          iv \in 1..MaxInterval, l \in 1..MaxPool :
          sc = [count |-> c, target |-> t, duration |-> d, interval |-> iv,
                dplen |-> l, dynamic |-> FALSE, ramp_up |-> 0,
                ramp_down |-> 0, recyclable |-> TRUE]
    /\ hashv \in [NodeIdx -> 0..MaxHash]
    /\ \A n \in NodeIdx : n >= sc.count => hashv[n] = 0
    /\ widx = 0
    /\ dpIndex = [n \in NodeIdx |-> 0]
    /\ journeys_complete = [n \in NodeIdx |-> -1]
    /\ smRunning = [n \in NodeIdx |-> n < sc.count]
    /\ work_resolved = [n \in NodeIdx |-> {}]
    /\ checkedOut = [n \in NodeIdx |-> <<>>]
    /\ subvols = [n \in NodeIdx |-> <<>>]

\* SpecLateJoin: as SpecWork, with a pool of MaxPool - 1 or MaxPool items
\* (shorter than the largest total volume) and a VolumeModel or a
\* DynamicVolumeModel with ramps of 0..MaxRamp seconds
LateJoinInit ==
    /\ \E c \in 1..MaxNodes, t \in 1..MaxVolume, d \in 1..MaxDuration,
          iv \in 1..MaxInterval, l \in (MaxPool - 1)..MaxPool, dyn \in BOOLEAN,
          ru \in 0..MaxRamp, rd \in 0..MaxRamp :
          /\ ~dyn => ru = 0 /\ rd = 0
          /\ sc = [count |-> c, target |-> t, duration |-> d, interval |-> iv,
                   dplen |-> l, dynamic |-> dyn, ramp_up |-> ru,
                   ramp_down |-> rd, recyclable |-> FALSE]
    /\ hashv \in [NodeIdx -> 0..MaxHash]
    /\ \A n \in NodeIdx : n >= sc.count => hashv[n] = 0
    /\ widx = 0
    /\ dpIndex = [n \in NodeIdx |-> 0]
    /\ journeys_complete = [n \in NodeIdx |-> -1]
    /\ smRunning = [n \in NodeIdx |-> n < sc.count]
    /\ work_resolved = [n \in NodeIdx |-> {}]
    /\ checkedOut = [n \in NodeIdx |-> <<>>]
    /\ subvols = [n \in NodeIdx |-> <<>>]

\* _resolve() on node n in work index widx: the index is recorded and work()
\* builds the interval (journeys_complete is -1 for "not in the dict")
WorkAt(n, k) ==
    LET skipped == journeys_complete[n] # -1 /\ journeys_complete[n] < k
        totals == NodeTotalJourneys(n, k)
        total_journey_calls == SumOver(totals, DOMAIN totals)
        has_pool == sc.dplen > 0
        fast_forward == k > 0 /\ dpIndex[n] = 0
        index0 == IF fast_forward
                  THEN CumulativeVolume(0, k * sc.interval - 1)
                  ELSE dpIndex[n]
        node_offset == SumOver(totals, {i \in DOMAIN totals : i < NodeIndexOf(n)})
        checkout_start == index0 + node_offset
        checkout_stop == checkout_start + totals[NodeIndexOf(n)]
        chunk == IF checkout_start > sc.dplen THEN <<>>
                 ELSE DatapoolCheckout(sc.dplen, checkout_start, checkout_stop)
    IN  /\ n \in Live
        /\ smRunning[n]
        /\ k \notin work_resolved[n]
        /\ work_resolved' = [work_resolved EXCEPT ![n] = @ \cup {k}]
        /\ IF skipped
           THEN /\ smRunning' = [smRunning EXCEPT ![n] = FALSE]
                /\ UNCHANGED <<journeys_complete, dpIndex, checkedOut, subvols>>
           ELSE /\ UNCHANGED smRunning
                /\ journeys_complete' =
                       IF CompleteHit(k)
                       THEN [journeys_complete EXCEPT ![n] = k]
                       ELSE journeys_complete
                /\ IF total_journey_calls = 0
                   THEN UNCHANGED <<dpIndex, checkedOut, subvols>>
                   ELSE /\ subvols' = [subvols EXCEPT ![n] =
                               Append(@, [index |-> k,
                                          volumes |-> SubintervalVolumes(n, k)])]
                        /\ IF has_pool
                           THEN /\ dpIndex' = [dpIndex EXCEPT ![n] =
                                                  index0 + total_journey_calls]
                                /\ checkedOut' = [checkedOut EXCEPT ![n] = @ \o chunk]
                           ELSE UNCHANGED <<dpIndex, checkedOut>>

Work(n) == WorkAt(n, widx) /\ UNCHANGED <<sc, hashv, widx>>

\* the wall clock enters the next work interval.  A manager whose resolve
\* loop has begun wakes in every interval; one the scheduler has not yet
\* started may begin at any later index (a node that joins late)
NextInterval ==
    /\ widx < WorkHorizon
    /\ \E n \in Live : smRunning[n]
    /\ \A n \in Live :
           smRunning[n] /\ work_resolved[n] # {} => widx \in work_resolved[n]
    /\ widx' = widx + 1
    /\ UNCHANGED <<sc, hashv, dpIndex, journeys_complete, smRunning,
                   work_resolved, checkedOut, subvols>>

(***************************************************************************)
(* SpecResolve: one node (Node.count = 1) runs one scenario of one         *)
(* constant-volume journey without a datapool, journey_separation 1.0.     *)
(* Scheduler.run finds the entry disc.latency seconds after its init_time  *)
(* and starts resolve() with start_time = init_time + Scenario.delay.      *)
(* elapsed is the floor of time.time() - start_time.  resolve() computes   *)
(* each sleep from the wall clock, so it wakes in the second of the        *)
(* boundary; spawn_journeys chains sleep(journey_separation) calls, whose  *)
(* overruns add up to at most MaxDrift whole seconds per task.             *)
(***************************************************************************)
ResolveIdle ==
    /\ disc = [delay |-> 0, latency |-> 0]
    /\ elapsed = 0
    /\ rwake = 0
    /\ spawnTasks = <<>>
    /\ total_spawned_journeys = 0
    /\ highSpawn = <<>>

\* ScenarioManager.work_index: int(self.elapsed // self.scenario.interval)
WorkIndex(e) == e \div sc.interval

\* resolve(): the first sleep(interval - elapsed % interval) ends at the next
\* interval boundary after the elapsed time e
NextBoundary(e) == (WorkIndex(e) + 1) * sc.interval

\* Scheduler.run creates the manager and its resolve task
ResolveInit ==
    /\ \E t \in 1..MaxVolume, d \in 0..MaxDuration, iv \in 1..MaxInterval :
          sc = [count |-> 1, target |-> t, duration |-> d, interval |-> iv,
                dplen |-> 0, dynamic |-> FALSE, ramp_up |-> 0, ramp_down |-> 0,
             recyclable |-> FALSE]
    /\ hashv = [n \in NodeIdx |-> 0]
    /\ dpIndex = [n \in NodeIdx |-> 0]
    /\ journeys_complete = [n \in NodeIdx |-> -1]
    /\ smRunning = [n \in NodeIdx |-> n = 0]
    /\ work_resolved = [n \in NodeIdx |-> {}]
    /\ checkedOut = [n \in NodeIdx |-> <<>>]
    /\ subvols = [n \in NodeIdx |-> <<>>]
    /\ disc \in [delay : 0..MaxDelay, latency : 0..MaxLatency]
    /\ elapsed = disc.latency - disc.delay
    /\ widx = WorkIndex(elapsed)
    /\ rwake = NextBoundary(elapsed)
    /\ spawnTasks = <<>>
    /\ total_spawned_journeys = 0
    /\ highSpawn = <<>>

\* the last second the clock of the model reaches
ResolveHorizon == sc.duration + 2 * sc.interval + MaxDrift

\* resolve() wakes at a boundary and runs _resolve(): work() builds the
\* interval and a spawn_journeys task is created for its Work; the loop goes
\* back to sleep until the next boundary unless work() cleared running
Resolve ==
    LET k == WorkIndex(elapsed)
    IN  /\ elapsed = rwake
        /\ widx' = k
        /\ WorkAt(0, k)
        /\ spawnTasks' =
               IF subvols'[0] # subvols[0]
               THEN Append(spawnTasks, [index |-> k,
                                        volumes |-> SubintervalVolumes(0, k),
                                        pos |-> 0, due |-> elapsed])
               ELSE spawnTasks
        /\ rwake' = IF smRunning'[0] THEN rwake + sc.interval ELSE rwake
        /\ UNCHANGED <<sc, hashv, disc, elapsed, total_spawned_journeys,
                       highSpawn>>

\* spawn_journeys, one turn of its for loop in task j: the journeys of
\* sub-interval pos are created, then the task sleeps journey_separation;
\* after the last sub-interval it returns
SpawnBatch(j) ==
    LET t == spawnTasks[j]
        volume == t.volumes[t.pos + 1]
        rest == [i \in 1..(Len(spawnTasks) - 1) |->
                    IF i < j THEN spawnTasks[i] ELSE spawnTasks[i + 1]]
    IN  /\ elapsed >= t.due
        /\ total_spawned_journeys' = total_spawned_journeys + volume
        /\ highSpawn' = IF volume > 0 THEN <<t.index, t.pos>> ELSE highSpawn
        /\ spawnTasks' =
               IF t.pos + 1 = Len(t.volumes)
               THEN rest
               ELSE [spawnTasks EXCEPT ![j] =
                        [@ EXCEPT !.pos = t.pos + 1, !.due = elapsed + 1]]
        /\ UNCHANGED <<workVars, disc, elapsed, rwake>>

Spawn == \E j \in 1..Len(spawnTasks) : SpawnBatch(j)

\* the last second in which task t may spawn its next sub-interval: the first
\* one is spawned in the second the task was created, a later one follows
\* pos sleeps and may be MaxDrift late
SpawnDeadline(t) ==
    t.index * sc.interval + t.pos + (IF t.pos > 0 THEN MaxDrift ELSE 0)

\* a second passes: resolve() is not due in this one, and no spawn_journeys
\* task falls behind its deadline
Second ==
    /\ elapsed < ResolveHorizon
    /\ ~(smRunning[0] /\ elapsed = rwake)
    /\ \A j \in 1..Len(spawnTasks) : elapsed + 1 <= SpawnDeadline(spawnTasks[j])
    /\ elapsed' = elapsed + 1
    /\ UNCHANGED <<workVars, disc, rwake, spawnTasks, total_spawned_journeys,
                   highSpawn>>

(***************************************************************************)
(* SpecScheduler: scheduler.py on one node.  The scenarios set holds up to *)
(* two specs that resolve to a Scenario and one that does not.  Each       *)
(* ScenarioManager is kept by what the scheduler can see of it: running,   *)
(* its resolve() task (rtask), and its spawn_journeys / journey tasks:     *)
(* bg are alive in _background_tasks, cancelling have been cancelled and   *)
(* not yet ended, orphan are alive and no longer in any _background_tasks  *)
(* the scheduler holds (counted up to MaxBg).  finite says whether the     *)
(* journeys have a duration.                                               *)
(***************************************************************************)
GoodSpecs == {"a", "b"}
BadSpec == "bad"
AllSpecs == GoodSpecs \cup {BadSpec}

\* ScenarioManager.__init__: running is False until resolve() first runs
NoManager(fin) ==
    [made |-> FALSE, finite |-> fin, running |-> FALSE, rtask |-> "none",
     bg |-> 0, cancelling |-> 0, orphan |-> 0]

SchedIdle ==
    /\ entries = {}
    /\ addLeft = {}
    /\ sched = [running |-> FALSE, task |-> "cancelled"]
    /\ scenarios = {}
    /\ scenario_managers = <<>>
    /\ scenario_tasks = {}
    /\ mgr = [s \in GoodSpecs |-> NoManager(FALSE)]
    /\ sh = [pc |-> "idle", at |-> 0]

\* Scheduler.__init__, with run() started by Node.run
SchedInit ==
    /\ entries = {}
    /\ addLeft = AllSpecs
    /\ sched = [running |-> TRUE, task |-> "sleep"]
    /\ scenarios = {}
    /\ scenario_managers = <<>>
    /\ scenario_tasks = {}
    /\ \E fin \in [GoodSpecs -> BOOLEAN] :
           mgr = [s \in GoodSpecs |-> NoManager(fin[s])]
    /\ sh = [pc |-> "idle", at |-> 0]

\* a client or a merged peer state adds the entry s to the scenarios set
AddEntry(s) ==
    /\ s \in addLeft
    /\ entries' = entries \cup {s}
    /\ addLeft' = addLeft \ {s}
    /\ UNCHANGED <<sched, scenarios, scenario_managers, scenario_tasks, mgr, sh>>

\* a remove with a later timestamp is applied or merged: s is not present
RemoveEntry(s) ==
    /\ s \in entries
    /\ entries' = entries \ {s}
    /\ UNCHANGED <<addLeft, sched, scenarios, scenario_managers,
                   scenario_tasks, mgr, sh>>

\* the orders in which the for loop of run() may meet the specs of S
OrdersOf(S) ==
    {q \in [1..Cardinality(S) -> S] : \A i, j \in DOMAIN q : i # j => q[i] # q[j]}

\* scenario_resolve_task and create_task(resolve()) for the specs of S; the
\* tasks a former manager of the spec left behind are out of reach
Started(S) ==
    [s \in GoodSpecs |->
        IF s \in S
        THEN [made |-> TRUE, finite |-> mgr[s].finite, running |-> FALSE,
              rtask |-> "new", bg |-> 0, cancelling |-> 0,
              orphan |-> Min(MaxBg, mgr[s].orphan + mgr[s].bg + mgr[s].cancelling)]
        ELSE mgr[s]]

RECURSIVE KeepRunning(_, _)
KeepRunning(q, m) ==
    IF q = <<>> THEN <<>>
    ELSE IF m[Head(q)].running THEN <<Head(q)>> \o KeepRunning(Tail(q), m)
         ELSE KeepRunning(Tail(q), m)

\* run(), one turn of the loop after sleep(1): every entry not in
\* self.scenarios is imported and started; spec_import raises on the
\* unresolvable spec, which ends run() where the for loop stands.  Then
\* _cleanup_completed_scenarios drops the specs whose resolve task is done
\* and, if there is one, the managers that are not running
Poll ==
    LET new == entries \ scenarios
        completed == {s \in scenario_tasks : mgr[s].rtask = "done"}
    IN  /\ sched.task = "sleep"
        /\ sched.running
        /\ sh.pc = "idle"
        /\ entries # {}
        \* the tasks created in the last turn ran their first step while
        \* run() slept
        /\ \A s \in GoodSpecs : mgr[s].rtask # "new"
        /\ IF BadSpec \in new
           THEN \E S \in SUBSET (new \ {BadSpec}) : \E q \in OrdersOf(S) :
                    /\ mgr' = Started(S)
                    /\ scenario_managers' = scenario_managers \o q
                    /\ scenario_tasks' = scenario_tasks \cup S
                    /\ scenarios' = scenarios \cup S
                    /\ sched' = [sched EXCEPT !.task = "failed"]
           ELSE \E q \in OrdersOf(new) :
                    /\ mgr' = Started(new)
                    /\ scenario_tasks' = (scenario_tasks \cup new) \ completed
                    /\ scenarios' = (scenarios \cup new) \ completed
                    /\ scenario_managers' =
                           IF completed = {} THEN scenario_managers \o q
                           ELSE KeepRunning(scenario_managers \o q, Started(new))
                    /\ UNCHANGED sched
        /\ UNCHANGED <<entries, addLeft, sh>>

\* resolve() begins: self.running = True, then the first sleep
ResolveStart(s) ==
    /\ mgr[s].rtask = "new"
    /\ mgr' = [mgr EXCEPT ![s].running = TRUE, ![s].rtask = "sleep"]
    /\ UNCHANGED <<entries, addLeft, sched, scenarios, scenario_managers,
                   scenario_tasks, sh>>

\* resolve() wakes at a boundary and calls _resolve(): work() finds the
\* scenario complete and clears running, or a spawn_journeys task is
\* created; the loop then ends unless running is still set
ResolveWake(s) ==
    /\ mgr[s].rtask = "sleep"
    /\ \/ /\ mgr[s].finite
          /\ mgr' = [mgr EXCEPT ![s].running = FALSE, ![s].rtask = "done"]
       \/ /\ mgr[s].bg < MaxBg
          /\ mgr' = [mgr EXCEPT ![s].bg = @ + 1,
                                ![s].rtask = IF mgr[s].running THEN "sleep"
                                             ELSE "done"]
    /\ UNCHANGED <<entries, addLeft, sched, scenarios, scenario_managers,
                   scenario_tasks, sh>>

\* a spawn_journeys or journey task returns, or ends by its cancellation
TaskEnds(s) ==
    /\ \/ mgr[s].bg > 0 /\ mgr' = [mgr EXCEPT ![s].bg = @ - 1]
       \/ mgr[s].orphan > 0 /\ mgr' = [mgr EXCEPT ![s].orphan = @ - 1]
       \/ mgr[s].cancelling > 0 /\ mgr' = [mgr EXCEPT ![s].cancelling = @ - 1]
       \/ mgr[s].rtask = "cancelling" /\ mgr' = [mgr EXCEPT ![s].rtask = "done"]
    /\ UNCHANGED <<entries, addLeft, sched, scenarios, scenario_managers,
                   scenario_tasks, sh>>

\* shutdown(), the for loop over scenario_managers from position i on, with
\* the managers as m: it runs without a pause (cancel_tasks returns at once
\* when _background_tasks is empty) up to the first manager that has
\* background tasks, cancels them and waits in gather; past the last manager
\* every task of _scenario_tasks is cancelled and awaited
RECURSIVE ShutdownFrom(_, _)
ShutdownFrom(i, m) ==
    IF i > Len(scenario_managers)
    THEN /\ mgr' = [s \in GoodSpecs |->
                       IF s \in scenario_tasks /\ m[s].rtask \in {"new", "sleep"}
                       THEN [m[s] EXCEPT !.rtask = "cancelling"]
                       ELSE m[s]]
         /\ IF scenario_tasks = {}
            THEN /\ sh' = [pc |-> "returned", at |-> 0]
                 /\ scenarios' = {}
                 /\ scenario_managers' = <<>>
                 /\ UNCHANGED scenario_tasks
            ELSE /\ sh' = [pc |-> "gatherTasks", at |-> 0]
                 /\ UNCHANGED <<scenarios, scenario_managers, scenario_tasks>>
    ELSE LET s == scenario_managers[i]
         IN  IF m[s].bg = 0
             THEN ShutdownFrom(i + 1, [m EXCEPT ![s].running = FALSE])
             ELSE /\ mgr' = [m EXCEPT ![s].running = FALSE,
                                      ![s].cancelling = @ + m[s].bg,
                                      ![s].bg = 0]
                  /\ sh' = [pc |-> "gather", at |-> i]
                  /\ UNCHANGED <<scenarios, scenario_managers, scenario_tasks>>

\* Node.shutdown calls Scheduler.shutdown() after run() has ended, by its
\* cancellation or by the exception it raised
SchedulerShutdown ==
    /\ sh.pc = "idle"
    /\ sched' = [running |-> FALSE,
                 task |-> IF sched.task = "sleep" THEN "cancelled" ELSE sched.task]
    /\ ShutdownFrom(1, mgr)
    /\ UNCHANGED <<entries, addLeft>>

\* cancel_tasks: gather returns when the cancelled tasks have ended, and
\* _background_tasks.clear() forgets the tasks added in the meantime
GatherDone ==
    LET s == scenario_managers[sh.at]
    IN  /\ sh.pc = "gather"
        /\ mgr[s].cancelling = 0
        /\ ShutdownFrom(sh.at + 1,
                        [mgr EXCEPT ![s].orphan = Min(MaxBg, @ + mgr[s].bg),
                                    ![s].bg = 0])
        /\ UNCHANGED <<entries, addLeft, sched>>

\* shutdown(): the gather of the resolve tasks returns, the three
\* collections are cleared and shutdown() returns
GatherTasksDone ==
    /\ sh.pc = "gatherTasks"
    /\ \A s \in scenario_tasks : mgr[s].rtask = "done"
    /\ sh' = [pc |-> "returned", at |-> 0]
    /\ scenario_tasks' = {}
    /\ scenarios' = {}
    /\ scenario_managers' = <<>>
    /\ UNCHANGED <<entries, addLeft, sched, mgr>>

(***************************************************************************)
(* SpecMetrics: metrics/collector.py.  One counter family, one histogram   *)
(* family and the event store are registered; threads call inc, observe    *)
(* and record_event, and one thread calls snapshot(reset).  The            *)
(* observations are numbered in the order they are made, and a family is   *)
(* kept as the set of the observations it holds.                           *)
(***************************************************************************)
MetricIdle ==
    /\ obsCount = 0
    /\ counterObs = {}
    /\ histObs = {}
    /\ eventObs = {}
    /\ snap = [pc |-> "idle", reset |-> FALSE, got |-> {}]

\* MetricCollector.__init__ and the registration of the families
MetricInit == MetricIdle

\* CounterMetric.inc, under the counter's lock
Inc ==
    /\ obsCount < MaxObs
    /\ obsCount' = obsCount + 1
    /\ counterObs' = counterObs \cup {obsCount + 1}
    /\ UNCHANGED <<histObs, eventObs, snap>>

\* HistogramMetric.observe, under the histogram's lock
Observe ==
    /\ obsCount < MaxObs
    /\ obsCount' = obsCount + 1
    /\ histObs' = histObs \cup {obsCount + 1}
    /\ UNCHANGED <<counterObs, eventObs, snap>>

\* MetricCollector.record_event, under _events_lock
RecordEvent ==
    /\ obsCount < MaxObs
    /\ obsCount' = obsCount + 1
    /\ eventObs' = eventObs \cup {obsCount + 1}
    /\ UNCHANGED <<counterObs, histObs, snap>>

\* MetricCollector.snapshot(reset) is called
SnapshotCall ==
    /\ snap.pc = "idle"
    /\ \E r \in BOOLEAN : snap' = [pc |-> "counters", reset |-> r, got |-> {}]
    /\ UNCHANGED <<obsCount, counterObs, histObs, eventObs>>

\* snapshot(): the counters are copied, each under its own lock
SnapshotCounters ==
    /\ snap.pc = "counters"
    /\ snap' = [snap EXCEPT !.pc = "histograms", !.got = @ \cup counterObs]
    /\ counterObs' = IF snap.reset THEN {} ELSE counterObs
    /\ UNCHANGED <<obsCount, histObs, eventObs>>

\* snapshot(): the histograms are copied, each under its own lock
SnapshotHistograms ==
    /\ snap.pc = "histograms"
    /\ snap' = [snap EXCEPT !.pc = "events", !.got = @ \cup histObs]
    /\ histObs' = IF snap.reset THEN {} ELSE histObs
    /\ UNCHANGED <<obsCount, counterObs, eventObs>>

\* snapshot(): the events are copied under _events_lock and the dict returned
SnapshotEvents ==
    /\ snap.pc = "events"
    /\ snap' = [snap EXCEPT !.pc = "done", !.got = @ \cup eventObs]
    /\ eventObs' = IF snap.reset THEN {} ELSE eventObs
    /\ UNCHANGED <<obsCount, counterObs, histObs>>

(***************************************************************************)
(* lwwelementset.py: LWWElementSet.                                        *)
(*                                                                         *)
(* add_set and remove_set are defaultdict(dict): a key is either not in    *)
(* the dict ("missing"), mapped to the {} a read of a missing key inserts  *)
(* ("empty"), or mapped to {"timestamp": ts, **values} ("entry").  The     *)
(* values are opaque and modelled by one string, meta.  A set is a record  *)
(* of two functions over the keys it may hold.                             *)
(***************************************************************************)
NoEntry == [st |-> "missing", ts |-> 0, meta |-> "-"]
EmptyDict == [st |-> "empty", ts |-> 0, meta |-> "-"]
Entry(ts, meta) == [st |-> "entry", ts |-> ts, meta |-> meta]
\* lookup() returning False
FalseRet == [st |-> "false", ts |-> 0, meta |-> "-"]

\* LWWElementSet()
NewSet(D) == [add_set |-> [k \in D |-> NoEntry], remove_set |-> [k \in D |-> NoEntry]]

\* the keys of a dict
InDict(d) == {k \in DOMAIN d : d[k].st # "missing"}

\* d[element] on a defaultdict(dict): a missing key is inserted as {}
GetItem(d, element) ==
    IF d[element].st = "missing" THEN [d EXCEPT ![element] = EmptyDict] ELSE d

\* entry.get("timestamp", 0.0)
TimestampOf(e) == IF e.st = "entry" THEN e.ts ELSE 0

\* bool(x) of a dict or of False
Truthy(x) == x.st = "entry"

\* add(element, timestamp, **added_values) at wall-clock time t; timestamp 0
\* stands for both None and 0, which "timestamp or time.time()" replaces
LwwAdd(s, element, timestamp, meta, t) ==
    LET ts == IF timestamp = 0 THEN t ELSE timestamp
        d == GetItem(s.add_set, element)
    IN  IF ts >= TimestampOf(d[element])
        THEN [s EXCEPT !.add_set = [d EXCEPT ![element] = Entry(ts, meta)]]
        ELSE [s EXCEPT !.add_set = d]

LwwRemove(s, element, timestamp, meta, t) ==
    LET ts == IF timestamp = 0 THEN t ELSE timestamp
        d == GetItem(s.remove_set, element)
    IN  IF ts >= TimestampOf(d[element])
        THEN [s EXCEPT !.remove_set = [d EXCEPT ![element] = Entry(ts, meta)]]
        ELSE [s EXCEPT !.remove_set = d]

\* lookup(element) with ">=" in place of ">"
LwwLookupTiePresent(s, element) ==
    LET add_ts == TimestampOf(s.add_set[element])
        remove_ts == TimestampOf(s.remove_set[element])
    IN  IF add_ts >= remove_ts THEN GetItem(s.add_set, element)[element] ELSE FalseRet

\* what lookup(element) returns
LwwLookup(s, element) ==
    LET add_ts == TimestampOf(s.add_set[element])
        remove_ts == TimestampOf(s.remove_set[element])
    IN  IF add_ts > remove_ts THEN GetItem(s.add_set, element)[element] ELSE FalseRet

\* the set after lookup(element): both reads go through the defaultdict
LwwAfterLookup(s, element) ==
    [add_set |-> GetItem(s.add_set, element),
     remove_set |-> GetItem(s.remove_set, element)]

\* what keys() returns: {e for e in self.add_set if self.lookup(e)}
LwwKeys(s) == {e \in InDict(s.add_set) : Truthy(LwwLookup(s, e))}

\* what values() returns
LwwValues(s) == {<<e, s.add_set[e]>> : e \in LwwKeys(s)}

\* the set after keys() or values(): lookup(e) has run for every e of add_set
LwwAfterKeys(s) ==
    [s EXCEPT !.remove_set =
        [k \in DOMAIN s.remove_set |->
            IF k \in InDict(s.add_set) /\ s.remove_set[k].st = "missing"
            THEN EmptyDict ELSE s.remove_set[k]]]

\* the adds of merge(): "for e, meta in other.add_set.items()", over the
\* keys todo still to visit; an entry without a truthy timestamp is skipped
RECURSIVE MergeAdds(_, _, _)
MergeAdds(s, other, todo) ==
    IF todo = {} THEN s
    ELSE LET e == CHOOSE x \in todo : TRUE
             meta == other.add_set[e]
         IN  MergeAdds(IF TimestampOf(meta) = 0 THEN s
                       ELSE LwwAdd(s, e, meta.ts, meta.meta, 0),
                       other, todo \ {e})

\* the removes of merge(): "for e, meta in other.remove_set.items()"
RECURSIVE MergeRemoves(_, _, _)
MergeRemoves(s, other, todo) ==
    IF todo = {} THEN s
    ELSE LET e == CHOOSE x \in todo : TRUE
             meta == other.remove_set[e]
         IN  MergeRemoves(IF TimestampOf(meta) = 0 THEN s
                          ELSE LwwRemove(s, e, meta.ts, meta.meta, 0),
                          other, todo \ {e})

\* self.merge(other)
LwwMerge(s, other) ==
    MergeRemoves(MergeAdds(s, other, InDict(other.add_set)),
                 other, InDict(other.remove_set))

(***************************************************************************)
(* SpecLWW: one LWWElementSet under add, remove, lookup, keys, values and  *)
(* merge of other sets, with a wall clock that only moves forward.         *)
(***************************************************************************)
LKeys == {"a", "b"}
LMeta == {"x"}
\* the timestamp argument: -1 is a negative number, 0 is None (or 0)
TsArgs == (-1)..MaxTime

EntryVals(M) ==
    {NoEntry, EmptyDict} \cup {Entry(t, m) : t \in 1..MaxTime, m \in M}

\* the sets merged in: every set that holds one key
OtherSets ==
    {[add_set |-> [k \in LKeys |-> IF k = e THEN a ELSE NoEntry],
      remove_set |-> [k \in LKeys |-> IF k = e THEN r ELSE NoEntry]] :
        e \in LKeys, a \in EntryVals(LMeta), r \in EntryVals(LMeta)}

NoRet == [op |-> "none", key |-> "a", value |-> FalseRet, keys |-> {}]

LwwIdle == now = 1 /\ lww = NewSet(LKeys) /\ ret = NoRet

LwwInit == LwwIdle

LAdd ==
    \E e \in LKeys, ts \in TsArgs, m \in LMeta :
        /\ lww' = LwwAdd(lww, e, ts, m, now)
        /\ ret' = NoRet
        /\ UNCHANGED now

LRemove ==
    \E e \in LKeys, ts \in TsArgs, m \in LMeta :
        /\ lww' = LwwRemove(lww, e, ts, m, now)
        /\ ret' = NoRet
        /\ UNCHANGED now

LLookup ==
    \E e \in LKeys :
        /\ ret' = [op |-> "lookup", key |-> e, value |-> LwwLookup(lww, e),
                   keys |-> {}]
        /\ lww' = LwwAfterLookup(lww, e)
        /\ UNCHANGED now

LKeysCall ==
    /\ ret' = [op |-> "keys", key |-> "a", value |-> FalseRet, keys |-> LwwKeys(lww)]
    /\ lww' = LwwAfterKeys(lww)
    /\ UNCHANGED now

LValuesCall ==
    /\ ret' = [op |-> "values", key |-> "a", value |-> FalseRet,
               keys |-> {v[1] : v \in LwwValues(lww)}]
    /\ lww' = LwwAfterKeys(lww)
    /\ UNCHANGED now

LMerge ==
    \E other \in OtherSets :
        /\ lww' = LwwMerge(lww, other)
        /\ ret' = NoRet
        /\ UNCHANGED now

\* time.time() moves on
Tick ==
    /\ now < MaxTime
    /\ now' = now + 1
    /\ UNCHANGED <<lww, ret>>

(***************************************************************************)
(* SpecMerge: three sets A, B, C over one key, merged in the orders the    *)
(* algebraic laws compare.  merge() mutates its receiver; the accumulators *)
(* are the copies the receiver would be.                                   *)
(***************************************************************************)
MKeys == {"k"}
MMeta == {"x", "y"}

\* the sets add() and remove() build: no key is mapped to {}
MSets ==
    {[add_set |-> [k \in MKeys |-> a], remove_set |-> [k \in MKeys |-> r]] :
        a \in EntryVals(MMeta) \ {EmptyDict}, r \in EntryVals(MMeta) \ {EmptyDict}}

MergeIdle ==
    /\ mpc = 0
    /\ mset = [A |-> NewSet(MKeys), B |-> NewSet(MKeys), C |-> NewSet(MKeys),
               AB |-> NewSet(MKeys), BA |-> NewSet(MKeys), BC |-> NewSet(MKeys),
               AC |-> NewSet(MKeys), AA |-> NewSet(MKeys),
               AB_C |-> NewSet(MKeys), A_BC |-> NewSet(MKeys),
               AC_B |-> NewSet(MKeys)]

MergeInit ==
    /\ mpc = 0
    /\ \E a \in MSets, b \in MSets, c \in MSets :
        mset = [A |-> a, B |-> b, C |-> c,
                AB |-> NewSet(MKeys), BA |-> NewSet(MKeys), BC |-> NewSet(MKeys),
                AC |-> NewSet(MKeys), AA |-> NewSet(MKeys),
                AB_C |-> NewSet(MKeys), A_BC |-> NewSet(MKeys),
                AC_B |-> NewSet(MKeys)]

\* the first merges: A.merge(B), B.merge(A), B.merge(C), A.merge(C), A.merge(A)
MergeFirst ==
    /\ mpc = 0
    /\ mpc' = 1
    /\ mset' = [mset EXCEPT !.AB = LwwMerge(mset.A, mset.B),
                            !.BA = LwwMerge(mset.B, mset.A),
                            !.BC = LwwMerge(mset.B, mset.C),
                            !.AC = LwwMerge(mset.A, mset.C),
                            !.AA = LwwMerge(mset.A, mset.A)]

\* the second merges: (A.B).merge(C), A.merge(B.C), (A.C).merge(B)
MergeSecond ==
    /\ mpc = 1
    /\ mpc' = 2
    /\ mset' = [mset EXCEPT !.AB_C = LwwMerge(mset.AB, mset.C),
                            !.A_BC = LwwMerge(mset.A, mset.BC),
                            !.AC_B = LwwMerge(mset.AC, mset.B)]

(***************************************************************************)
(* The gossip of the nodes: node.py, transport/zmq.py, serialization.py.   *)
(*                                                                         *)
(* A node is named by its identity; its ROUTER address is the host/port    *)
(* metadata of its node_register entry and is written as the same name.    *)
(* All nodes read one wall clock, now.                                     *)
(***************************************************************************)
Nodes == {"n1", "n2"}
\* the nodes started with --web-port
WebNodes == {"n1"}
\* the nodes whose run() ends while the model runs
StopNodes == {"n1"}
\* the nodes started with a --bootstrap list
JoinNodes == {"n2"}
\* the sender that is not a node (SpecRouter)
Ext == "ext"
\* node_id of a bootstrap send
NoneId == "None"
Scenarios == {"s"}
GKeys == Nodes \cup {NoneId} \cup Scenarios

StateKeys == {"node_register", "scenarios", "metrics_snapshots"}
\* the keys update_neighbours() sends to one neighbour, in order; the nodes
\* share a metrics directory, so every peer is in _shared_fs_peers and
\* metrics_snapshots is skipped
RoundKeys == <<"node_register", "scenarios">>
\* the key bind() sends to a bootstrap node
BootKeys == <<"node_register">>
\* remove(element) called without removed_values
NoMeta == "none"

(***************************************************************************)
(* serialization.py.  A payload is what msgpack carries: b"" ("empty"),    *)
(* bytes that do not unpack ("garbage"), a map with other keys than        *)
(* add_set / remove_set ("badkeys"), or the to_dict() of a set ("map"),    *)
(* whose two dicts hold only the keys present in the defaultdicts.         *)
(***************************************************************************)
NoDict == [k \in {} |-> NoEntry]
EmptyBytes == [kind |-> "empty", add_set |-> NoDict, remove_set |-> NoDict]
Garbage == [kind |-> "garbage", add_set |-> NoDict, remove_set |-> NoDict]
BadKeys == [kind |-> "badkeys", add_set |-> NoDict, remove_set |-> NoDict]

\* dict(self.add_set): the keys in the dict with their values
ToDict(d) == [k \in InDict(d) |-> d[k]]

\* serialize_lww(lww)
SerializeLww(s) ==
    [kind |-> "map", add_set |-> ToDict(s.add_set), remove_set |-> ToDict(s.remove_set)]

\* validate_metadata with the "timestamp" requirement left out
ValidateMetadataAnyDict(e) == e.st \in {"entry", "empty"} /\ e.ts >= 0

\* validate_metadata: a dict with a numeric, non-negative "timestamp"
ValidateMetadata(e) == e.st = "entry" /\ e.ts >= 0

\* validate_element_set: every key a str (None does not unpack as a map key
\* under strict_map_key), every value valid metadata
ValidateElementSet(d) ==
    \A k \in DOMAIN d : k # NoneId /\ ValidateMetadata(d[k])

\* deserialize_lww raises neither SerializationError nor ValidationError
Deserializes(p) ==
    /\ p.kind = "map"
    /\ ValidateElementSet(p.add_set)
    /\ ValidateElementSet(p.remove_set)

\* LWWElementSet.from_dict of the unpacked map
FromDict(p) ==
    [add_set |-> [k \in GKeys |-> IF k \in DOMAIN p.add_set THEN p.add_set[k]
                                                            ELSE NoEntry],
     remove_set |-> [k \in GKeys |-> IF k \in DOMAIN p.remove_set
                                     THEN p.remove_set[k] ELSE NoEntry]]

(***************************************************************************)
(* transport/zmq.py: ZMQTransport.send and ZMQTransport._listen as         *)
(* functions of the caller's Node.state (st) and connection pool.          *)
(***************************************************************************)
\* send() up to its poll: connect if the socket is not pooled, serialize
\* state[key]; the request that leaves the DEALER
SendRequest(n, key, st) == [from |-> n, key |-> key, payload |-> SerializeLww(st[key])]

SendPool(pool, socket) == pool \cup {socket}

\* send() when the poll finds a reply: b"" is logged, a payload that
\* deserializes is merged into state[key], any other is logged
SendReply(st, key, received_data) ==
    IF received_data.kind = "empty" \/ ~Deserializes(received_data) THEN st
    ELSE [st EXCEPT ![key] = LwwMerge(@, FromDict(received_data))]

\* send() when the poll times out: state[key].remove(node_id), disconnect,
\* discard the socket from the pool
SendTimeout(st, pool, node_id, socket, key, t) ==
    [state |-> [st EXCEPT ![key] = LwwRemove(@, node_id, 0, NoMeta, t)],
     pool |-> pool \ {socket}]

\* _listen() on one request: the reply sent and the state left
ListenStep(st, msg) ==
    IF ~Deserializes(msg.payload)
    THEN [reply |-> EmptyBytes, state |-> st]
    ELSE [reply |-> SerializeLww(st[msg.key]),
          state |-> [st EXCEPT ![msg.key] = LwwMerge(@, FromDict(msg.payload))]]

(***************************************************************************)
(* node.py: the life of a node and its coroutines.                         *)
(*                                                                         *)
(* life[n]: "init" after Node(), "boot" while bind() awaits its bootstrap  *)
(* sends, "bound" after bind(), "running" from run() on, "final" while     *)
(* shutdown() awaits its last gossip round, "closed" after close().        *)
(* task[n][t] is a coroutine of n that calls send(): "main" (bind and      *)
(* shutdown), "loop" (update_loop) and "api" (a web handler).  A task that *)
(* is in send() waits at the poll ("wait"); todo holds the neighbours      *)
(* still to serve, the first being served, and keys the keys still to      *)
(* send to it, the first being in flight.  Code between two awaits runs as *)
(* one step.                                                               *)
(***************************************************************************)
Tasks == {"main", "loop", "api"}

OffTask == [pc |-> "off", todo |-> <<>>, keys |-> <<>>]
IdleTask == [pc |-> "idle", todo |-> <<>>, keys |-> <<>>]

RECURSIVE Perms(_)
Perms(S) ==
    IF S = {} THEN {<<>>}
    ELSE UNION {{<<x>> \o q : q \in Perms(S \ {x})} : x \in S}

\* the bootstrap lists of a node: other nodes' addresses
BootLists(n) ==
    IF n \in JoinNodes
    THEN UNION {[1..len -> Nodes \ {n}] : len \in 1..MaxBoot}
    ELSE {<<>>}

\* what a step of node n may change
View(n) ==
    [st |-> gstate[n], pool |-> connected[n], rin |-> routerIn,
     din |-> dealerIn[n], tk |-> task[n], lis |-> listening[n], life |-> life[n]]

Apply(n, v) ==
    /\ gstate' = [gstate EXCEPT ![n] = v.st]
    /\ connected' = [connected EXCEPT ![n] = v.pool]
    /\ routerIn' = v.rin
    /\ dealerIn' = [dealerIn EXCEPT ![n] = v.din]
    /\ task' = [task EXCEPT ![n] = v.tk]
    /\ listening' = [listening EXCEPT ![n] = v.lis]
    /\ life' = [life EXCEPT ![n] = v.life]

\* the ROUTER of node m is bound and open
RouterOpen(m) == life[m] \notin {"init", "closed"}

\* a request leaves for the ROUTER at socket: it is queued there if that
\* router is open and has room, and is lost otherwise
Deliver(rin, socket, msg) ==
    IF socket \in Nodes /\ RouterOpen(socket) /\ Len(rin[socket]) < MaxQueue
    THEN [rin EXCEPT ![socket] = Append(@, msg)]
    ELSE rin

\* ZMQTransport.close() at the end of shutdown(), or the process ending
Close(n, v) ==
    [v EXCEPT !.pool = {}, !.rin[n] = <<>>, !.din = <<>>, !.lis = FALSE,
              !.life = "closed", !.tk = [t \in Tasks |-> OffTask]]

\* a coroutine returns from its round of sends
Finish(n, t, v) ==
    CASE t = "loop" ->
            [v EXCEPT !.tk[t] = IF v.life = "running" THEN IdleTask ELSE OffTask]
      [] t = "api" -> [v EXCEPT !.tk[t] = IdleTask]
      [] OTHER ->
            IF v.life = "boot"
            THEN [v EXCEPT !.tk[t] = IdleTask, !.life = "bound"]
            ELSE Close(n, v)

\* m['host'] raises KeyError in update_neighbours(): a web handler answers
\* 400, update_loop dies, bind() and shutdown() end the process
Raise(n, t, v) ==
    CASE t = "loop" -> [v EXCEPT !.tk[t] = OffTask]
      [] t = "api" -> [v EXCEPT !.tk[t] = IdleTask]
      [] OTHER -> Close(n, v)

\* task t of node n goes on with the sends todo / keys it holds in v: it
\* returns when none is left, and else runs send() up to its poll
Proceed(n, t, v) ==
    LET todo == v.tk[t].todo
        keys == v.tk[t].keys
    IN  IF todo = <<>> THEN Finish(n, t, v)
        ELSE IF Head(todo).sock \notin Nodes THEN Raise(n, t, v)
        ELSE [v EXCEPT !.pool = SendPool(@, Head(todo).sock),
                       !.rin = Deliver(@, Head(todo).sock,
                                       SendRequest(n, Head(keys), v.st)),
                       !.tk[t].pc = "wait"]

\* the sends left when the one in flight has returned
Advance(tk, keyseq) ==
    IF Len(tk.keys) > 1 THEN [tk EXCEPT !.keys = Tail(@)]
    ELSE [tk EXCEPT !.todo = Tail(@), !.keys = keyseq]

\* the keys a task sends to each neighbour
KeysOf(v) == IF v.life = "boot" THEN BootKeys ELSE RoundKeys

\* update_neighbours(shutting_down) of task t up to its first poll: the
\* views it may leave, one for each order random.sample may give
UpdateNeighboursFrom(n, t, v, shutting_down) ==
    LET reg == v.st["node_register"]
        checked == LwwAfterKeys(reg)
        readded == IF n \notin LwwKeys(reg) /\ ~shutting_down
                   THEN LwwAdd(checked, n, 0, n, now)
                   ELSE checked
        listed == LwwAfterKeys(readded)
        others == LwwKeys(readded) \ {n}
    IN  {Proceed(n, t,
                 [v EXCEPT !.st["node_register"] = listed,
                           !.tk[t].todo =
                               [i \in DOMAIN order |->
                                   [nid |-> order[i],
                                    sock |-> listed.add_set[order[i]].meta]],
                           !.tk[t].keys = RoundKeys]) :
            order \in Perms(others)}

\* Node.bind(): bind the router, add self to node_register, send the
\* register to the first bootstrap node
Bind(n) ==
    /\ life[n] = "init"
    /\ Apply(n, Proceed(n, "main",
                [View(n) EXCEPT
                    !.life = "boot",
                    !.st["node_register"] = LwwAdd(@, n, 0, n, now),
                    !.tk["main"].todo =
                        [i \in DOMAIN boot[n] |-> [nid |-> NoneId, sock |-> boot[n][i]]],
                    !.tk["main"].keys = BootKeys]))
    /\ UNCHANGED <<boot, apiLeft, extIn, injLeft>>

\* Node.run(): the web server, listen() and update_loop() start
Run(n) ==
    /\ life[n] = "bound"
    /\ life' = [life EXCEPT ![n] = "running"]
    /\ listening' = [listening EXCEPT ![n] = TRUE]
    /\ task' = [task EXCEPT ![n]["loop"] = IdleTask,
                            ![n]["api"] = IF n \in WebNodes THEN IdleTask ELSE OffTask]
    /\ UNCHANGED <<gstate, connected, routerIn, dealerIn, boot, apiLeft, extIn, injLeft>>

\* update_loop(): while self.running, a round of update_neighbours()
UpdateNeighbours(n) ==
    /\ life[n] = "running"
    /\ task[n]["loop"].pc = "idle"
    /\ \E w \in UpdateNeighboursFrom(n, "loop", View(n), FALSE) : Apply(n, w)
    /\ UNCHANGED <<boot, apiLeft, extIn, injLeft>>

\* send() of task t: the poll finds a reply, which is taken as the reply to
\* the request in flight
PollReply(n, t) ==
    /\ task[n][t].pc = "wait"
    /\ dealerIn[n] # <<>>
    /\ LET v == View(n)
           key == Head(v.tk[t].keys)
       IN  Apply(n, Proceed(n, t,
                   [v EXCEPT !.st = SendReply(@, key, Head(v.din).payload),
                             !.din = Tail(@),
                             !.tk[t] = Advance(@, KeysOf(v))]))
    /\ UNCHANGED <<boot, apiLeft, extIn, injLeft>>

\* a request of n is queued at a router whose listen loop is alive: the
\* reply comes within the poll timeout
Answering(n, socket) ==
    /\ socket \in Nodes
    /\ listening[socket]
    /\ \E i \in DOMAIN routerIn[socket] : routerIn[socket][i].from = n

\* send() of task t: the poll returns nothing within the timeout
PollTimeout(n, t) ==
    /\ task[n][t].pc = "wait"
    /\ dealerIn[n] = <<>>
    /\ ~Answering(n, Head(task[n][t].todo).sock)
    /\ LET v == View(n)
           nb == Head(v.tk[t].todo)
           r == SendTimeout(v.st, v.pool, nb.nid, nb.sock, Head(v.tk[t].keys), now)
       IN  Apply(n, Proceed(n, t,
                   [v EXCEPT !.st = r.state,
                             !.pool = r.pool,
                             !.tk[t] = Advance(@, KeysOf(v))]))
    /\ UNCHANGED <<boot, apiLeft, extIn, injLeft>>

\* the reply of a router reaches the DEALER of the sender if that dealer is
\* still connected to the router
Listen(n) ==
    /\ listening[n]
    /\ routerIn[n] # <<>>
    /\ LET msg == Head(routerIn[n])
           r == ListenStep(gstate[n], msg)
       IN  /\ gstate' = [gstate EXCEPT ![n] = r.state]
           /\ routerIn' = [routerIn EXCEPT ![n] = Tail(@)]
           /\ IF msg.from = Ext
              THEN /\ extIn' = Append(extIn, r.reply)
                   /\ UNCHANGED dealerIn
              ELSE /\ dealerIn' =
                        IF n \in connected[msg.from]
                        THEN [dealerIn EXCEPT ![msg.from] =
                                 Append(@, [from |-> n, key |-> msg.key,
                                            payload |-> r.reply])]
                        ELSE dealerIn
                   /\ UNCHANGED extIn
    /\ UNCHANGED <<life, task, listening, connected, boot, apiLeft, injLeft>>

\* Node.shutdown(): running = False, remove self, the final round with
\* shutting_down=True.  When run() ended by cancellation the listen and
\* update_loop tasks are gone (cancelled); when it ended by the exception
\* of one task the others are still alive.
Shutdown(n) ==
    /\ n \in StopNodes
    /\ life[n] = "running"
    /\ \E cancelled \in BOOLEAN :
        LET v == View(n)
            v1 == [v EXCEPT !.life = "final",
                            !.st["node_register"] = LwwRemove(@, n, 0, NoMeta, now),
                            !.lis = IF cancelled THEN FALSE ELSE @,
                            !.tk["loop"] = IF cancelled \/ @.pc = "idle"
                                           THEN OffTask ELSE @]
        IN  \E w \in UpdateNeighboursFrom(n, "main", v1, TRUE) : Apply(n, w)
    /\ UNCHANGED <<boot, apiLeft, extIn, injLeft>>

\* web/api.py post_scenario: 409 if the scenario is in keys(), else add it
\* and gossip with update_neighbours()
ApiPost(n) ==
    /\ life[n] \in {"running", "final"}
    /\ task[n]["api"].pc = "idle"
    /\ apiLeft[n] > 0
    /\ apiLeft' = [apiLeft EXCEPT ![n] = @ - 1]
    /\ \E spec \in Scenarios :
        LET v == View(n)
            scen == v.st["scenarios"]
        IN  IF spec \in LwwKeys(scen)
            THEN Apply(n, [v EXCEPT !.st["scenarios"] = LwwAfterKeys(scen)])
            ELSE \E w \in UpdateNeighboursFrom(n, "api",
                             [v EXCEPT !.st["scenarios"] =
                                 LwwAdd(LwwAfterKeys(scen), spec, 0, spec, now)],
                             FALSE) :
                    Apply(n, w)
    /\ UNCHANGED <<boot, extIn, injLeft>>

\* scheduler.py Scheduler.run: every second, state["scenarios"].values()
SchedulerPoll(n) ==
    /\ life[n] = "running"
    /\ gstate' = [gstate EXCEPT ![n]["scenarios"] = LwwAfterKeys(@)]
    /\ UNCHANGED <<life, task, listening, connected, routerIn, dealerIn, boot,
                   apiLeft, extIn, injLeft>>

(***************************************************************************)
(* SpecRouter: the requests a sender outside the cluster puts on the       *)
(* router of a node.                                                       *)
(***************************************************************************)
RouterNode == "n1"

OneDict(k, e) == [x \in {k} |-> e]

\* an LWW map as the outside sender packs it
Map(a, r) == [kind |-> "map", add_set |-> a, remove_set |-> r]

\* the payloads sent: bytes that are no LWW map; maps about node n2 that
\* validate; maps with an entry that has no timestamp, a negative
\* timestamp, or the key None
InjectPayloads ==
    {EmptyBytes, Garbage, BadKeys,
     Map(OneDict("n2", Entry(1, "n2")), NoDict),
     Map(OneDict("n2", Entry(1, "n2")), OneDict("n2", Entry(1, NoMeta))),
     Map(OneDict("n2", Entry(1, "n2")), OneDict("n2", EmptyDict)),
     Map(OneDict("n2", Entry(-1, "n2")), NoDict),
     Map(NoDict, OneDict(NoneId, Entry(1, NoMeta)))}

\* the keys it names in its requests
InjectKeys == {"node_register", "scenarios"}

Inject(n) ==
    /\ injLeft > 0
    /\ RouterOpen(n)
    /\ Len(routerIn[n]) < MaxQueue
    /\ injLeft' = injLeft - 1
    /\ \E key \in InjectKeys, p \in InjectPayloads :
          routerIn' = [routerIn EXCEPT ![n] =
                          Append(@, [from |-> Ext, key |-> key, payload |-> p])]
    /\ UNCHANGED <<gstate, life, task, listening, connected, dealerIn, boot,
                   apiLeft, extIn>>

(***************************************************************************)
(* Node.__init__: three empty sets, and the --job scenario if one is given *)
(***************************************************************************)
NewState(job) ==
    [k \in StateKeys |->
        IF k = "scenarios" /\ job # NoneId
        THEN LwwAdd(NewSet(GKeys), job, 0, job, 1)
        ELSE NewSet(GKeys)]

GossipIdle ==
    /\ gstate = [n \in Nodes |-> NewState(NoneId)]
    /\ life = [n \in Nodes |-> "init"]
    /\ task = [n \in Nodes |-> [t \in Tasks |-> OffTask]]
    /\ listening = [n \in Nodes |-> FALSE]
    /\ connected = [n \in Nodes |-> {}]
    /\ routerIn = [n \in Nodes |-> <<>>]
    /\ dealerIn = [n \in Nodes |-> <<>>]
    /\ boot = [n \in Nodes |-> <<>>]
    /\ apiLeft = [n \in Nodes |-> 0]
    /\ extIn = <<>>
    /\ injLeft = 0

\* the cluster as started: each node with a bootstrap list, the web nodes
\* with or without a --job
GossipInit ==
    /\ \E job \in Scenarios \cup {NoneId} :
          gstate = [n \in Nodes |-> NewState(IF n \in WebNodes THEN job ELSE NoneId)]
    /\ life = [n \in Nodes |-> "init"]
    /\ task = [n \in Nodes |-> [t \in Tasks |-> OffTask]]
    /\ listening = [n \in Nodes |-> FALSE]
    /\ connected = [n \in Nodes |-> {}]
    /\ routerIn = [n \in Nodes |-> <<>>]
    /\ dealerIn = [n \in Nodes |-> <<>>]
    /\ boot \in [Nodes -> UNION {BootLists(n) : n \in Nodes}]
    /\ \A n \in Nodes : boot[n] \in BootLists(n)
    /\ apiLeft = [n \in Nodes |-> IF n \in WebNodes THEN MaxApi ELSE 0]
    /\ extIn = <<>>
    /\ injLeft = 0

\* one node and the outside sender
RouterInit ==
    /\ gstate = [n \in Nodes |-> NewState(NoneId)]
    /\ life = [n \in Nodes |-> "init"]
    /\ task = [n \in Nodes |-> [t \in Tasks |-> OffTask]]
    /\ listening = [n \in Nodes |-> FALSE]
    /\ connected = [n \in Nodes |-> {}]
    /\ routerIn = [n \in Nodes |-> <<>>]
    /\ dealerIn = [n \in Nodes |-> <<>>]
    /\ boot = [n \in Nodes |-> <<>>]
    /\ apiLeft = [n \in Nodes |-> 0]
    /\ extIn = <<>>
    /\ injLeft = MaxInject

(***************************************************************************)
(* The variables of the specifications of single functions and objects,    *)
(* at rest.                                                                *)
(***************************************************************************)
WireIdle == [pc |-> "idle"]
PoolIdle == [pc |-> "idle"]
VmIdle == [pc |-> "idle"]
RegIdle == [pc |-> "idle"]
RsIdle == [pc |-> "idle"]
CursorIdle == [pc |-> "idle"]
ContextIdle == <<>>
SpawnIdle == [pc |-> "idle"]
CountersIdle == [pc |-> "idle"]

LateIdle == cview = CursorIdle /\ ctx = ContextIdle /\ sp = SpawnIdle /\ mc = CountersIdle

PureIdle ==
    /\ wire = WireIdle /\ dp = PoolIdle /\ vm = VmIdle /\ nreg = RegIdle /\ rs = RsIdle
    /\ LateIdle

(***************************************************************************)
(* SpecWire: serialization.py on one set.  A value is a Python object      *)
(* given by its type and, for an int or a float, its number, for a str its *)
(* length.  A metadata dict has at most the keys "timestamp" and "v";      *)
(* Absent marks a key the dict does not have.  The widths and limits are   *)
(* scaled: msgpack packs an int of -2^63 .. 2^64 - 1, here of              *)
(* -2^(WireBits-1) .. 2^WireBits - 1.                                      *)
(***************************************************************************)
IntV(n) == [ty |-> "int", n |-> n]
FloatV(n) == [ty |-> "float", n |-> n]
StrV(len) == [ty |-> "str", n |-> len]
NoneV == [ty |-> "none", n |-> 0]
ListV == [ty |-> "list", n |-> 0]
Absent == [ty |-> "absent", n |-> 0]

MaxUInt == 2^WireBits - 1
MinInt == 0 - 2^(WireBits - 1)

\* a missing key, and the dict {"timestamp": ts, "v": v} or a part of it
WMissing == [st |-> "missing", ts |-> Absent, v |-> Absent]
WDict(ts, v) == [st |-> "dict", ts |-> ts, v |-> v]

WKeys == {"a", "b"}
\* len(key)
KeyLen(k) == 1

\* len(data) of a metadata dict
MetaKeys(e) == (IF e.ts = Absent THEN 0 ELSE 1) + (IF e.v = Absent THEN 0 ELSE 1)

\* validate_metadata
WValidateMetadata(e) ==
    /\ e.st = "dict"
    /\ MetaKeys(e) <= MAX_METADATA_KEYS
    /\ e.ts # Absent
    /\ e.ts.ty \in {"int", "float"}
    /\ e.ts.n >= 0
    /\ e.v # Absent =>
          /\ e.v.ty \in {"str", "int", "float", "bool", "none"}
          /\ e.v.ty = "str" => e.v.n <= MAX_STRING_LENGTH

\* validate_element_set of a dict whose keys are str
WValidateElementSet(d) ==
    /\ Cardinality(DOMAIN d) <= MAX_COLLECTION_SIZE
    /\ \A k \in DOMAIN d : KeyLen(k) <= MAX_STRING_LENGTH /\ WValidateMetadata(d[k])

\* validate_lww_dict of {"add_set": ..., "remove_set": ...}
ValidateLwwDict(data) ==
    WValidateElementSet(data.add_set) /\ WValidateElementSet(data.remove_set)

\* LWWElementSet.to_dict
WToDict(s) == [add_set |-> ToDict(s.add_set), remove_set |-> ToDict(s.remove_set)]

\* msgpack refuses to pack the object: OverflowError for an int outside
\* the 64-bit formats
PackOverflows(v) == v.ty = "int" /\ (v.n > MaxUInt \/ v.n < MinInt)

\* the msgpack format an object is packed in, and the bytes it takes
PackValue(v) ==
    CASE v.ty = "int" ->
            [fmt |-> IF v.n >= 0 THEN "uint" ELSE "int", n |-> v.n,
             size |-> IF v.n >= -32 /\ v.n <= 127 THEN 1 ELSE 1 + WireBits \div 8]
      [] v.ty = "float" -> [fmt |-> "float64", n |-> v.n, size |-> 9]
      [] v.ty = "str" -> [fmt |-> "str", n |-> v.n,
                          size |-> (IF v.n <= 31 THEN 1 ELSE 2) + v.n]
      [] v.ty = "list" -> [fmt |-> "array", n |-> 0, size |-> 1]
      [] OTHER -> [fmt |-> "nil", n |-> 0, size |-> 1]

\* the object unpackb(raw=False) builds from a format
UnpackValue(f) ==
    CASE f.fmt \in {"uint", "int"} -> IntV(f.n)
      [] f.fmt = "float64" -> FloatV(f.n)
      [] f.fmt = "str" -> StrV(f.n)
      [] f.fmt = "array" -> ListV
      [] OTHER -> NoneV

\* a metadata dict packed as a map: fixmap byte, then key and value pairs
\* ("timestamp" takes 10 bytes, "v" takes 2)
PackMeta(e) ==
    [ts |-> IF e.ts = Absent THEN Absent ELSE PackValue(e.ts),
     v |-> IF e.v = Absent THEN Absent ELSE PackValue(e.v)]
MetaSize(e) ==
    1 + (IF e.ts = Absent THEN 0 ELSE 10 + PackValue(e.ts).size)
      + (IF e.v = Absent THEN 0 ELSE 2 + PackValue(e.v).size)
SetSize(d) == 1 + SumOver([k \in DOMAIN d |-> 1 + KeyLen(k) + MetaSize(d[k])], DOMAIN d)
\* len(packed): the two-key map with "add_set" and "remove_set"
PackedSize(data) == 1 + 8 + SetSize(data.add_set) + 11 + SetSize(data.remove_set)

WireError(e) == [kind |-> e, size |-> 0, add_set |-> <<>>, remove_set |-> <<>>]

\* msgpack.packb(data, use_bin_type=True)
Packb(data) ==
    IF \E S \in {data.add_set, data.remove_set} : \E k \in DOMAIN S :
          \/ S[k].ts # Absent /\ PackOverflows(S[k].ts)
          \/ S[k].v # Absent /\ PackOverflows(S[k].v)
    THEN WireError("OverflowError")
    ELSE [kind |-> "bytes", size |-> PackedSize(data),
          add_set |-> [k \in DOMAIN data.add_set |-> PackMeta(data.add_set[k])],
          remove_set |-> [k \in DOMAIN data.remove_set |-> PackMeta(data.remove_set[k])]]

\* serialize_lww
SerializeLwwBytes(s) ==
    LET packed == Packb(WToDict(s))
    IN  IF packed.kind # "bytes" THEN WireError("SerializationError")
        ELSE IF packed.size > MAX_MESSAGE_SIZE THEN WireError("SerializationError")
        ELSE packed

UnpackMeta(e) ==
    WDict(IF e.ts = Absent THEN Absent ELSE UnpackValue(e.ts),
          IF e.v = Absent THEN Absent ELSE UnpackValue(e.v))

\* msgpack.unpackb(data, raw=False, strict_map_key=True, ...)
Unpackb(b) ==
    [add_set |-> [k \in DOMAIN b.add_set |-> UnpackMeta(b.add_set[k])],
     remove_set |-> [k \in DOMAIN b.remove_set |-> UnpackMeta(b.remove_set[k])]]

\* LWWElementSet.from_dict
WFromDict(data) ==
    [add_set |-> [k \in WKeys |-> IF k \in DOMAIN data.add_set
                                  THEN data.add_set[k] ELSE WMissing],
     remove_set |-> [k \in WKeys |-> IF k \in DOMAIN data.remove_set
                                     THEN data.remove_set[k] ELSE WMissing]]

WireNoSet == [add_set |-> [k \in WKeys |-> WMissing], remove_set |-> [k \in WKeys |-> WMissing]]

\* deserialize_lww: the set built, or the error raised
DeserializeLww(b) ==
    IF b.size > MAX_MESSAGE_SIZE THEN [err |-> "ValidationError", set |-> WireNoSet]
    ELSE LET unpacked == Unpackb(b)
         IN  IF ~ValidateLwwDict(unpacked)
             THEN [err |-> "ValidationError", set |-> WireNoSet]
             ELSE [err |-> "none", set |-> WFromDict(unpacked)]

\* the values a timestamp and a metadata value are drawn from
TsVals ==
    {IntV(-1), IntV(1), IntV(MaxUInt), IntV(MaxUInt + 1), FloatV(1), StrV(1), NoneV}
MetaVals ==
    {Absent, StrV(1), StrV(MAX_STRING_LENGTH), StrV(MAX_STRING_LENGTH + 1),
     IntV(MaxUInt + 1), ListV}
\* every entry: no key, {}, a dict without "timestamp", a dict with one
AnyEntries ==
    {WMissing, WDict(Absent, Absent), WDict(Absent, StrV(1))}
        \cup {WDict(ts, v) : ts \in TsVals, v \in MetaVals}
\* the entries add() and remove() store with a short or a long metadata
\* string, and the {} a read of a missing key inserts
PlainEntries == {WMissing, WDict(FloatV(1), StrV(1)), WDict(FloatV(1), StrV(MAX_STRING_LENGTH))}

WireInit ==
    \E a \in AnyEntries, b \in PlainEntries,
       ra \in PlainEntries \cup {WDict(Absent, Absent)}, rb \in PlainEntries :
        wire = [pc |-> "new",
                set |-> [add_set |-> [k \in WKeys |-> IF k = "a" THEN a ELSE b],
                         remove_set |-> [k \in WKeys |-> IF k = "a" THEN ra ELSE rb]],
                packed |-> WireError("none"),
                out |-> [err |-> "none", set |-> WireNoSet]]

\* data = serialize_lww(lww)
WireSerialize ==
    /\ wire.pc = "new"
    /\ LET b == SerializeLwwBytes(wire.set)
       IN  wire' = [wire EXCEPT !.packed = b,
                                !.pc = IF b.kind = "bytes" THEN "packed" ELSE "serr"]

\* lww2 = deserialize_lww(data)
WireDeserialize ==
    /\ wire.pc = "packed"
    /\ LET r == DeserializeLww(wire.packed)
       IN  wire' = [wire EXCEPT !.out = r,
                                !.pc = IF r.err = "none" THEN "done" ELSE "derr"]

(***************************************************************************)
(* SpecPool: the four datapools over the same ordered lines, and one       *)
(* checkout(start, stop) made on each.  An item is its 0-based position.   *)
(* The file has dp.len lines and ends with a newline or not (dp.nl); its   *)
(* index file is the one _process_data_file writes, with the interval of   *)
(* 1 000 000 lines scaled to LINE_INTERVAL.  A checkout returns the items  *)
(* its iterator yields, or the error it raises.                            *)
(***************************************************************************)
Raised == [st |-> "error", items |-> <<>>]
Yields(s) == [st |-> "ok", items |-> s]
NotCalled == [st |-> "none", items |-> <<>>]

\* _items[a:b] for 0 <= a, 0 <= b
Slice(len, a, b) == [p \in 1..(Min(b, len) - Min(a, len)) |-> Min(a, len) + p - 1]

\* IterableDatapool.checkout
IterableDatapoolCheckout(len, start, stop) ==
    IF start < 0 THEN Raised
    ELSE IF start > len THEN Raised
    ELSE IF stop < 0 THEN Raised
    ELSE IF stop < start THEN Raised
    ELSE Yields(Slice(len, start, stop))

\* RecyclableDatapool.checkout
RecyclableDatapoolCheckout(len, start, stop) ==
    IF start < 0 THEN Raised
    ELSE IF start > len THEN Raised
    ELSE IF stop < 0 THEN Raised
    ELSE IF stop < start THEN Yields(Slice(len, start, len) \o Slice(len, 0, stop))
    ELSE Yields(Slice(len, start, stop))

\* _process_data_file: the line numbers written to the index file, in order;
\* line_count counts the newlines, and a point is written after every
\* line_interval-th line
LineCount(len, nl) == IF nl THEN len ELSE len - 1
ProcessDataFile(len, nl) ==
    LET line_interval == Min(LineCount(len, nl), LINE_INTERVAL)
    IN  SelectSeq([i \in 1..len |-> i], LAMBDA line_number : line_number % line_interval = 0)

\* _seek_closest_point: the last index point not beyond start, reading the
\* index file up to the first point beyond it
RECURSIVE SeekClosestPoint(_, _, _)
SeekClosestPoint(meta, start, closest) ==
    IF meta = <<>> THEN closest
    ELSE IF Head(meta) <= start THEN SeekClosestPoint(Tail(meta), start, Head(meta))
    ELSE closest

\* the loop of _extract_chunk from the line at position p on
RECURSIVE ReadLines(_, _, _, _)
ReadLines(len, p, start, stop) ==
    IF p >= len THEN <<>>
    ELSE LET current_line_number == p + 1
             out == IF current_line_number > start THEN <<p>> ELSE <<>>
         IN  IF stop # 0 /\ current_line_number >= stop THEN out
             ELSE out \o ReadLines(len, p + 1, start, stop)

\* FileDatapool._extract_chunk
ExtractChunk(len, meta, start, stop) ==
    LET closest_line_number == IF start # 0 THEN SeekClosestPoint(meta, start, 0) ELSE 0
    IN  ReadLines(len, closest_line_number, start, stop)

\* FileDatapool.__len__: the last index point plus the lines after it
FileLen(len, meta) == meta[Len(meta)] + (len - meta[Len(meta)])

\* FileDatapool.checkout
FileDatapoolCheckout(len, meta, start, stop) == Yields(ExtractChunk(len, meta, start, stop))

\* RecyclableFileDatapool.checkout
RecyclableFileDatapoolCheckout(len, meta, start, stop) ==
    IF stop < start
    THEN Yields(ExtractChunk(len, meta, start, FileLen(len, meta))
                    \o ExtractChunk(len, meta, 0, stop))
    ELSE Yields(ExtractChunk(len, meta, start, stop))

\* a file of one line without a newline has no pool: __init__ raises
\* ZeroDivisionError in _process_data_file
PoolInit ==
    \E len \in 1..MaxLines, nl \in BOOLEAN, start \in (-1)..(MaxLines + 1),
       stop \in (-1)..(MaxLines + 2) :
        /\ LineCount(len, nl) > 0
        /\ start <= len + 1
        /\ dp = [len |-> len, nl |-> nl, meta |-> ProcessDataFile(len, nl),
                 start |-> start, stop |-> stop,
                 iterable |-> NotCalled, recyclable |-> NotCalled,
                 file |-> NotCalled, recyclable_file |-> NotCalled]

\* list(IterableDatapool(lines).checkout(start, stop))
CheckoutIterable ==
    /\ dp.iterable = NotCalled
    /\ dp' = [dp EXCEPT !.iterable = IterableDatapoolCheckout(dp.len, dp.start, dp.stop)]

\* list(RecyclableDatapool(lines).checkout(start, stop))
CheckoutRecyclable ==
    /\ dp.recyclable = NotCalled
    /\ dp' = [dp EXCEPT !.recyclable = RecyclableDatapoolCheckout(dp.len, dp.start, dp.stop)]

\* list(FileDatapool(filename).checkout(start, stop))
CheckoutFile ==
    /\ dp.file = NotCalled
    /\ dp' = [dp EXCEPT !.file = FileDatapoolCheckout(dp.len, dp.meta, dp.start, dp.stop)]

\* list(RecyclableFileDatapool(filename).checkout(start, stop))
CheckoutRecyclableFile ==
    /\ dp.recyclable_file = NotCalled
    /\ dp' = [dp EXCEPT !.recyclable_file =
                 RecyclableFileDatapoolCheckout(dp.len, dp.meta, dp.start, dp.stop)]

(***************************************************************************)
(* SpecVolumeModel: one VolumeModel or DynamicVolumeModel, held in sc, and *)
(* the calls model(time_delta) made on it.  sc.duration = 0 stands for     *)
(* duration=0 and for duration=None, which __call__ treats alike;          *)
(* vm.no_duration tells which of the two the constructor was given.  A     *)
(* DynamicVolumeModel with a ramp_down and no duration is not built        *)
(* (__init__ raises ValueError); one with a ramp_down and duration 0 is    *)
(* left out.                                                               *)
(***************************************************************************)
VmInit ==
    /\ \E t \in 1..MaxVmTarget, d \in 0..MaxVmDuration, dyn \in BOOLEAN,
          ru \in 0..MaxVmRamp, rd \in 0..MaxVmDuration, nd \in BOOLEAN :
          /\ ~dyn => ru = 0 /\ rd = 0
          /\ nd => d = 0
          /\ rd # 0 => d > 0
          /\ sc = [count |-> 1, target |-> t, duration |-> d, interval |-> 1,
                   dplen |-> 0, dynamic |-> dyn, ramp_up |-> ru,
                   ramp_down |-> rd, recyclable |-> FALSE]
          /\ vm = [no_duration |-> nd, called |-> FALSE, time_delta |-> 0,
                   complete |-> FALSE, volume |-> 0]
    /\ hashv = [n \in NodeIdx |-> 0]
    /\ widx = 0
    /\ dpIndex = [n \in NodeIdx |-> 0]
    /\ journeys_complete = [n \in NodeIdx |-> -1]
    /\ smRunning = [n \in NodeIdx |-> FALSE]
    /\ work_resolved = [n \in NodeIdx |-> {}]
    /\ checkedOut = [n \in NodeIdx |-> <<>>]
    /\ subvols = [n \in NodeIdx |-> <<>>]

\* journey.volumemodel(time_delta): the volume, or JourneyComplete
VmCall ==
    \E time_delta \in 0..(MaxVmDuration + 1) :
        /\ vm' = [vm EXCEPT !.called = TRUE, !.time_delta = time_delta,
                            !.complete = VolumeComplete(time_delta),
                            !.volume = IF VolumeComplete(time_delta) THEN 0
                                       ELSE VolumeTarget(time_delta)]
        /\ UNCHANGED workVars

(***************************************************************************)
(* SpecRegister: node.py's cached cluster view.  One Node, its             *)
(* node_register under add, remove and merge, and the reads of Node.count  *)
(* and Node.index.  An identity is named by its rank in the sorted order   *)
(* of the identities (1, 2, 3); the node's own is RegSelf.  NoneInt stands *)
(* for None in _index and _count.                                          *)
(***************************************************************************)
RKeys == 1..3
RegSelf == 2
NoneInt == -1
RegMeta == "x"

\* the sets merged in: every set that holds one key
RegOthers ==
    LET vals == {NoEntry} \cup {Entry(ts, RegMeta) : ts \in 1..MaxRegTime}
    IN  {[add_set |-> [k \in RKeys |-> IF k = e THEN a ELSE NoEntry],
          remove_set |-> [k \in RKeys |-> IF k = e THEN r ELSE NoEntry]] :
            e \in RKeys, a \in vals, r \in vals}

\* _invalidate_cache comparing the number of keys instead of the keys
InvalidateCacheByLen(n) ==
    LET current_keys == LwwKeys(n.node_register)
        after == [n EXCEPT !.node_register = LwwAfterKeys(n.node_register)]
    IN  IF n._cached_node_keys.is_none
           \/ Cardinality(n._cached_node_keys.keys) # Cardinality(current_keys)
        THEN [after EXCEPT !._cached_node_keys = [is_none |-> FALSE, keys |-> current_keys],
                           !._index = NoneInt, !._count = NoneInt,
                           !.refreshed = ~n._cached_node_keys.is_none]
        ELSE [after EXCEPT !.refreshed = FALSE]

\* Node._invalidate_cache; keys() leaves its {} entries in the register
InvalidateCache(n) ==
    LET current_keys == LwwKeys(n.node_register)
        after == [n EXCEPT !.node_register = LwwAfterKeys(n.node_register)]
    IN  IF n._cached_node_keys.is_none \/ n._cached_node_keys.keys # current_keys
        THEN [after EXCEPT !._cached_node_keys = [is_none |-> FALSE, keys |-> current_keys],
                           !._index = NoneInt, !._count = NoneInt,
                           !.refreshed = ~n._cached_node_keys.is_none]
        ELSE [after EXCEPT !.refreshed = FALSE]

\* sorted(keys).index(identity)
SortedIndex(keys, identity) == Cardinality({k \in keys : k < identity})

\* Node.count: the Node after the read (ret holds the value returned)
NodeCount(n) ==
    LET m == InvalidateCache(n)
        c == IF m._count = NoneInt THEN Cardinality(m._cached_node_keys.keys)
             ELSE m._count
    IN  [m EXCEPT !._count = c, !.ret = [op |-> "count", value |-> c]]

\* Node.index
NodeIndex(n) ==
    LET m == InvalidateCache(n)
        i == IF m._index = NoneInt /\ m._cached_node_keys.keys # {}
             THEN IF RegSelf \in m._cached_node_keys.keys
                  THEN SortedIndex(m._cached_node_keys.keys, RegSelf)
                  ELSE NoneInt
             ELSE m._index
    IN  [m EXCEPT !._index = i, !.ret = [op |-> "index", value |-> i]]

RegNoRet == [op |-> "none", value |-> NoneInt]

\* Node.__init__
RegInit ==
    nreg = [node_register |-> NewSet(RKeys), _index |-> NoneInt, _count |-> NoneInt,
            _cached_node_keys |-> [is_none |-> TRUE, keys |-> {}],
            ret |-> RegNoRet, refreshed |-> FALSE]

\* self.state["node_register"].add(identity, timestamp)
RegAdd ==
    \E e \in RKeys, ts \in 1..MaxRegTime :
        nreg' = [nreg EXCEPT !.node_register = LwwAdd(@, e, ts, RegMeta, ts),
                             !.ret = RegNoRet, !.refreshed = FALSE]

\* self.state["node_register"].remove(identity, timestamp)
RegRemove ==
    \E e \in RKeys, ts \in 1..MaxRegTime :
        nreg' = [nreg EXCEPT !.node_register = LwwRemove(@, e, ts, RegMeta, ts),
                             !.ret = RegNoRet, !.refreshed = FALSE]

\* self.state["node_register"].merge(other)
RegMerge ==
    \E other \in RegOthers :
        nreg' = [nreg EXCEPT !.node_register = LwwMerge(@, other),
                             !.ret = RegNoRet, !.refreshed = FALSE]

\* node.count
ReadCount == nreg' = NodeCount(nreg)

\* node.index
ReadIndex == nreg' = NodeIndex(nreg)

(***************************************************************************)
(* SpecClock: ScenarioManager.resolve() and _resolve() with every read of  *)
(* time.time() as a step of its own.  The clock counts ticks of            *)
(* 1 / TicksPerInterval of scenario.interval since start_time, and may     *)
(* advance between any two steps.  asyncio.sleep is timed on the event     *)
(* loop's monotonic clock, not on time.time(): a sleep ends no more than   *)
(* EarlyWake ticks of time.time() before its target and arbitrarily late.  *)
(* The journeys have no duration, so work() never clears running.          *)
(***************************************************************************)
\* ScenarioManager.work_index at tick e: int(self.elapsed // interval)
TickIndex(e) == e \div TicksPerInterval

\* resolve(): time_until_next_interval = interval - elapsed % interval
TickBoundary(e) == (TickIndex(e) + 1) * TicksPerInterval

\* ScenarioManager.__init__ and the first sleep of resolve()
ClockInit ==
    rs = [pc |-> "sleep", elapsed |-> 0, wake |-> TickBoundary(0),
          work_resolved |-> <<>>,
          built |-> [i \in 0..TickIndex(MaxTick) |-> 0]]

\* time.time() advances
ClockTick ==
    /\ rs.elapsed < MaxTick
    /\ rs' = [rs EXCEPT !.elapsed = @ + 1]

\* resolve(): await asyncio.sleep(time_until_next_interval) returns
ClockWake ==
    /\ rs.pc = "sleep"
    /\ rs.elapsed + EarlyWake >= rs.wake
    /\ rs' = [rs EXCEPT !.pc = "check"]

\* _resolve(): if self.work_index() in self.work_resolved
ClockCheck ==
    /\ rs.pc = "check"
    /\ rs' = [rs EXCEPT !.pc =
                 IF \E i \in 1..Len(rs.work_resolved) :
                        rs.work_resolved[i] = TickIndex(rs.elapsed)
                 THEN "skip" ELSE "record",
                        !.wake = IF \E i \in 1..Len(rs.work_resolved) :
                                       rs.work_resolved[i] = TickIndex(rs.elapsed)
                                 THEN rs.elapsed + SeparationTicks ELSE @]

\* _resolve(): await asyncio.sleep(journey_separation) returns, and resolve()
\* computes its next sleep
ClockSkip ==
    /\ rs.pc = "skip"
    /\ rs.elapsed + EarlyWake >= rs.wake
    /\ rs' = [rs EXCEPT !.pc = "sleep", !.wake = TickBoundary(rs.elapsed)]

\* _resolve(): self.work_resolved.append(self.work_index())
ClockRecord ==
    /\ rs.pc = "record"
    /\ rs' = [rs EXCEPT !.pc = "work",
                        !.work_resolved = Append(@, TickIndex(rs.elapsed))]

\* _resolve(): work_interval = self.work(), whose first line reads
\* work_index = work_index or self.work_index(); the tasks are created and
\* resolve() computes its next sleep
ClockWork ==
    /\ rs.pc = "work"
    /\ rs' = [rs EXCEPT !.pc = "sleep",
                        !.built[TickIndex(rs.elapsed)] = IF @ < 2 THEN @ + 1 ELSE @,
                        !.wake = TickBoundary(rs.elapsed)]

(***************************************************************************)
(* SpecCursor: ScenarioManager.work() over the history of one node.  The   *)
(* scenario is sc: one journey with a constant VolumeModel and, when       *)
(* sc.dplen > 0, an IterableDatapool.  In each work interval the node      *)
(* either runs _resolve() or sleeps through it, and Node.count and         *)
(* Node.index are what its node_register holds at that moment: count is 0  *)
(* for an empty live set, index is NoneInt when the node's identity is     *)
(* not in it.  last is what the latest call of work() did, and the view    *)
(* it was made under.                                                      *)
(***************************************************************************)
NoCall == [op |-> "none", k |-> 0, node_count |-> 0, node_index |-> NoneInt,
           cursor |-> 0, start |-> 0, stop |-> 0, volumes |-> <<>>]

\* node_total_journeys of work index k for a live set of c nodes
ViewTotals(c, k) ==
    [node_index \in 0..(c - 1) |->
        SumOver([i \in SubSeconds(k) |->
                    NodeTargetVolume(node_index, c,
                                     VolumeTarget(k * sc.interval + i),
                                     hashv[0] % c)],
                SubSeconds(k))]

\* subinterval_volumes: appended to only where node_index == self.node.index
ViewVolumes(c, idx, k) ==
    IF idx = NoneInt THEN <<>>
    ELSE [p \in 1..Cardinality(SubSeconds(k)) |->
             NodeTargetVolume(idx, c, VolumeTarget(k * sc.interval + p - 1),
                              hashv[0] % c)]

\* ScenarioManager.work() for work index v.k under Node.count = c and
\* Node.index = idx: the manager after the call
WorkOfView(v, c, idx) ==
    LET k == v.k
        skipped == v.journeys_complete # -1 /\ v.journeys_complete < k
        totals == ViewTotals(c, k)
        total_journey_calls == SumOver(totals, DOMAIN totals)
        complete == IF CompleteHit(k) THEN k ELSE v.journeys_complete
        index0 == IF k > 0 /\ v.index = 0
                  THEN CumulativeVolume(0, k * sc.interval - 1)
                  ELSE v.index
        node_offset == SumOver(totals, {i \in DOMAIN totals : i < idx})
        checkout_start == index0 + node_offset
        checkout_stop == checkout_start + totals[idx]
    IN  IF skipped
        THEN [v EXCEPT !.running = FALSE,
                       !.last = [NoCall EXCEPT !.op = "complete", !.k = k]]
        ELSE IF c = 0
        THEN \* hash(journey.spec) % self.node.count raises ZeroDivisionError,
             \* which ends the resolve() task
             [v EXCEPT !.pc = "raised",
                       !.last = [NoCall EXCEPT !.op = "raised", !.k = k]]
        ELSE IF total_journey_calls = 0
        THEN [v EXCEPT !.journeys_complete = complete,
                       !.last = [NoCall EXCEPT !.op = "nowork", !.k = k]]
        ELSE IF sc.dplen > 0 /\ idx # NoneInt
        THEN [v EXCEPT !.journeys_complete = complete,
                       !.index = index0 + total_journey_calls,
                       !.last = [NoCall EXCEPT !.op = "checkout", !.k = k,
                                    !.cursor = index0,
                                    !.start = checkout_start,
                                    !.stop = checkout_stop,
                                    !.volumes = ViewVolumes(c, idx, k)]]
        ELSE [v EXCEPT !.journeys_complete = complete,
                       !.last = [NoCall EXCEPT !.op = "work", !.k = k,
                                               !.volumes = ViewVolumes(c, idx, k)]]

\* Scheduler.run creates the manager; its journey's datapool is new
CursorInit ==
    /\ \E t \in 1..MaxVolume, d \in 1..MaxDuration, iv \in 1..MaxInterval,
          l \in {0, MaxPool} :
          sc = [count |-> 1, target |-> t, duration |-> d, interval |-> iv,
                dplen |-> l, dynamic |-> FALSE, ramp_up |-> 0, ramp_down |-> 0,
                recyclable |-> FALSE]
    /\ hashv \in [NodeIdx -> 0..MaxHash]
    /\ \A n \in NodeIdx : n > 0 => hashv[n] = 0
    /\ widx = 0
    /\ dpIndex = [n \in NodeIdx |-> 0]
    /\ journeys_complete = [n \in NodeIdx |-> -1]
    /\ smRunning = [n \in NodeIdx |-> FALSE]
    /\ work_resolved = [n \in NodeIdx |-> {}]
    /\ checkedOut = [n \in NodeIdx |-> <<>>]
    /\ subvols = [n \in NodeIdx |-> <<>>]
    /\ cview = [pc |-> "resolve", k |-> 0, index |-> 0, journeys_complete |-> -1,
                running |-> TRUE, last |-> NoCall]

\* _resolve() in work index k, then the sleep to the next boundary
CursorWork ==
    /\ cview.pc = "resolve"
    /\ cview.running
    /\ cview.k <= WorkHorizon
    /\ \E c \in 0..MaxNodes, idx \in {NoneInt} \cup 0..(MaxNodes - 1) :
          /\ idx < c
          /\ cview' = [WorkOfView(cview, c, idx) EXCEPT !.k = cview.k + 1,
                                                       !.last.node_count = c,
                                                       !.last.node_index = idx]

\* the node's resolve loop does not run in work index k (the manager was
\* started later, or its sleep ended an interval late)
CursorSleep ==
    /\ cview.pc = "resolve"
    /\ cview.running
    /\ cview.k < WorkHorizon
    /\ cview' = [cview EXCEPT !.k = @ + 1, !.last = NoCall]

(***************************************************************************)
(* The specifications.                                                     *)
(***************************************************************************)
\* the variables each specification leaves alone
notVol == <<workVars, resolveVars, schedVars, metricVars, now, lwwVars, mergeVars, gossipVars, pureVars>>
notWork == <<volVars, resolveVars, schedVars, metricVars, now, lwwVars, mergeVars, gossipVars, pureVars>>
notLww == <<volVars, workVars, resolveVars, schedVars, metricVars, mergeVars, gossipVars, pureVars>>
notMerge == <<volVars, workVars, resolveVars, schedVars, metricVars, now, lwwVars, gossipVars, pureVars>>
notGossip == <<volVars, workVars, resolveVars, schedVars, metricVars, lwwVars, mergeVars, pureVars>>

VolSpecInit == VolInit /\ WorkIdle /\ ResolveIdle /\ SchedIdle /\ MetricIdle /\ LwwIdle /\ MergeIdle /\ GossipIdle /\ PureIdle

VolNext == VolCall /\ UNCHANGED notVol

SpecVolume == VolSpecInit /\ [][VolNext]_vars

WorkSpecInit == ntv = VolIdle /\ WorkInit /\ ResolveIdle /\ SchedIdle /\ MetricIdle /\ LwwIdle /\ MergeIdle /\ GossipIdle /\ PureIdle

WorkNext ==
    \/ (\E n \in NodeIdx : Work(n)) /\ UNCHANGED notWork
    \/ NextInterval /\ UNCHANGED notWork

SpecWork == WorkSpecInit /\ [][WorkNext]_vars

LateJoinSpecInit ==
    ntv = VolIdle /\ LateJoinInit /\ ResolveIdle /\ SchedIdle /\ MetricIdle /\ LwwIdle /\ MergeIdle /\ GossipIdle /\ PureIdle

LateJoinNext ==
    \/ (\E n \in NodeIdx : Work(n)) /\ UNCHANGED notWork
    \/ NextInterval /\ UNCHANGED notWork

SpecLateJoin == LateJoinSpecInit /\ [][LateJoinNext]_vars

RecycleSpecInit ==
    ntv = VolIdle /\ RecycleInit /\ ResolveIdle /\ SchedIdle /\ MetricIdle /\ LwwIdle /\ MergeIdle /\ GossipIdle /\ PureIdle

RecycleNext ==
    \/ (\E n \in NodeIdx : Work(n)) /\ UNCHANGED notWork
    \/ NextInterval /\ UNCHANGED notWork

SpecRecycle == RecycleSpecInit /\ [][RecycleNext]_vars

notSched == <<volVars, workVars, resolveVars, metricVars, now, lwwVars, mergeVars, gossipVars, pureVars>>

SchedSpecInit ==
    ntv = VolIdle /\ WorkIdle /\ ResolveIdle /\ SchedInit /\ MetricIdle /\ LwwIdle /\ MergeIdle /\ GossipIdle /\ PureIdle

SchedNext ==
    \/ (\E s \in AllSpecs : AddEntry(s)) /\ UNCHANGED notSched
    \/ (\E s \in AllSpecs : RemoveEntry(s)) /\ UNCHANGED notSched
    \/ Poll /\ UNCHANGED notSched
    \/ (\E s \in GoodSpecs : ResolveStart(s)) /\ UNCHANGED notSched
    \/ (\E s \in GoodSpecs : ResolveWake(s)) /\ UNCHANGED notSched
    \/ (\E s \in GoodSpecs : TaskEnds(s)) /\ UNCHANGED notSched
    \/ SchedulerShutdown /\ UNCHANGED notSched
    \/ GatherDone /\ UNCHANGED notSched
    \/ GatherTasksDone /\ UNCHANGED notSched

SpecScheduler == SchedSpecInit /\ [][SchedNext]_vars

\* a scheduler that is never shut down: run() polls every second, every
\* resolve task wakes at its boundaries and every task that can end does
FairSchedNext ==
    \/ (\E s \in AllSpecs : AddEntry(s)) /\ UNCHANGED notSched
    \/ (\E s \in AllSpecs : RemoveEntry(s)) /\ UNCHANGED notSched
    \/ Poll /\ UNCHANGED notSched
    \/ (\E s \in GoodSpecs : ResolveStart(s)) /\ UNCHANGED notSched
    \/ (\E s \in GoodSpecs : ResolveWake(s)) /\ UNCHANGED notSched
    \/ (\E s \in GoodSpecs : TaskEnds(s)) /\ UNCHANGED notSched

SchedFairness ==
    /\ WF_vars(Poll /\ UNCHANGED notSched)
    /\ \A s \in GoodSpecs :
           /\ WF_vars(ResolveStart(s) /\ UNCHANGED notSched)
           /\ WF_vars(ResolveWake(s) /\ UNCHANGED notSched)
           /\ WF_vars(TaskEnds(s) /\ UNCHANGED notSched)

FairScheduler == SchedSpecInit /\ [][FairSchedNext]_vars /\ SchedFairness

notMetric == <<volVars, workVars, resolveVars, schedVars, now, lwwVars, mergeVars,
               gossipVars, pureVars>>

MetricSpecInit ==
    ntv = VolIdle /\ WorkIdle /\ ResolveIdle /\ SchedIdle /\ MetricInit /\ LwwIdle /\ MergeIdle /\ GossipIdle /\ PureIdle

MetricNext ==
    \/ Inc /\ UNCHANGED notMetric
    \/ Observe /\ UNCHANGED notMetric
    \/ RecordEvent /\ UNCHANGED notMetric
    \/ SnapshotCall /\ UNCHANGED notMetric
    \/ SnapshotCounters /\ UNCHANGED notMetric
    \/ SnapshotHistograms /\ UNCHANGED notMetric
    \/ SnapshotEvents /\ UNCHANGED notMetric

SpecMetrics == MetricSpecInit /\ [][MetricNext]_vars

notResolve == <<volVars, schedVars, metricVars, now, lwwVars, mergeVars, gossipVars, pureVars>>

ResolveSpecInit == ntv = VolIdle /\ ResolveInit /\ SchedIdle /\ MetricIdle /\ LwwIdle /\ MergeIdle /\ GossipIdle /\ PureIdle

ResolveNext ==
    \/ Resolve /\ UNCHANGED notResolve
    \/ Spawn /\ UNCHANGED notResolve
    \/ Second /\ UNCHANGED notResolve

SpecResolve == ResolveSpecInit /\ [][ResolveNext]_vars

\* the event loop runs a ready step, and time passes when none is ready
FairResolve == ResolveSpecInit /\ [][ResolveNext]_vars /\ WF_vars(ResolveNext)

LwwSpecInit == ntv = VolIdle /\ WorkIdle /\ ResolveIdle /\ SchedIdle /\ MetricIdle /\ LwwInit /\ MergeIdle /\ GossipIdle /\ PureIdle

LwwNext ==
    \/ LAdd /\ UNCHANGED notLww
    \/ LRemove /\ UNCHANGED notLww
    \/ LLookup /\ UNCHANGED notLww
    \/ LKeysCall /\ UNCHANGED notLww
    \/ LValuesCall /\ UNCHANGED notLww
    \/ LMerge /\ UNCHANGED notLww
    \/ Tick /\ UNCHANGED notLww

SpecLWW == LwwSpecInit /\ [][LwwNext]_vars

MergeSpecInit == ntv = VolIdle /\ WorkIdle /\ ResolveIdle /\ SchedIdle /\ MetricIdle /\ LwwIdle /\ MergeInit /\ GossipIdle /\ PureIdle

MergeNext ==
    \/ MergeFirst /\ UNCHANGED notMerge
    \/ MergeSecond /\ UNCHANGED notMerge

SpecMerge == MergeSpecInit /\ [][MergeNext]_vars

\* a gossip step leaves the clock and the other groups alone
Still == UNCHANGED <<now, notGossip>>

GossipSpecInit == ntv = VolIdle /\ WorkIdle /\ ResolveIdle /\ SchedIdle /\ MetricIdle /\ LwwIdle /\ MergeIdle /\ GossipInit /\ PureIdle

GossipNext ==
    \/ (\E n \in Nodes : Bind(n)) /\ Still
    \/ (\E n \in Nodes : Run(n)) /\ Still
    \/ (\E n \in Nodes : UpdateNeighbours(n)) /\ Still
    \/ (\E n \in Nodes, t \in Tasks : PollReply(n, t)) /\ Still
    \/ (\E n \in Nodes, t \in Tasks : PollTimeout(n, t)) /\ Still
    \/ (\E n \in Nodes : Listen(n)) /\ Still
    \/ (\E n \in Nodes : Shutdown(n)) /\ Still
    \/ (\E n \in Nodes : ApiPost(n)) /\ Still
    \/ Tick /\ UNCHANGED <<notLww, lwwVars>>

SpecGossip == GossipSpecInit /\ [][GossipNext]_vars

\* the cluster left to itself: no node stops, no request reaches the web
\* API, the scheduler polls; every coroutine that can step does so
FairNext ==
    \/ (\E n \in Nodes : Bind(n)) /\ Still
    \/ (\E n \in Nodes : Run(n)) /\ Still
    \/ (\E n \in Nodes : UpdateNeighbours(n)) /\ Still
    \/ (\E n \in Nodes, t \in Tasks : PollReply(n, t)) /\ Still
    \/ (\E n \in Nodes, t \in Tasks : PollTimeout(n, t)) /\ Still
    \/ (\E n \in Nodes : Listen(n)) /\ Still
    \/ (\E n \in Nodes : SchedulerPoll(n)) /\ Still
    \/ Tick /\ UNCHANGED <<notLww, lwwVars>>

Fairness ==
    \A n \in Nodes :
        /\ WF_vars(Bind(n) /\ Still)
        /\ WF_vars(Run(n) /\ Still)
        /\ WF_vars(UpdateNeighbours(n) /\ Still)
        /\ WF_vars(Listen(n) /\ Still)
        /\ WF_vars(SchedulerPoll(n) /\ Still)
        /\ \A t \in Tasks :
              /\ WF_vars(PollReply(n, t) /\ Still)
              /\ WF_vars(PollTimeout(n, t) /\ Still)

FairGossip == GossipSpecInit /\ [][FairNext]_vars /\ Fairness

RouterSpecInit == ntv = VolIdle /\ WorkIdle /\ ResolveIdle /\ SchedIdle /\ MetricIdle /\ LwwIdle /\ MergeIdle /\ RouterInit /\ PureIdle

RouterNext ==
    \/ Bind(RouterNode) /\ Still
    \/ Run(RouterNode) /\ Still
    \/ Inject(RouterNode) /\ Still
    \/ Listen(RouterNode) /\ Still
    \/ UpdateNeighbours(RouterNode) /\ Still
    \/ PollTimeout(RouterNode, "loop") /\ Still
    \/ Tick /\ UNCHANGED <<notLww, lwwVars>>

SpecRouter == RouterSpecInit /\ [][RouterNext]_vars

(***************************************************************************)
(* The claims.                                                             *)
(***************************************************************************)
\* every node of the cluster began at work index 0, processed each index
\* once up to completion, and has stopped
AllProcessedAll ==
    \A n \in Live : ~smRunning[n] /\ 0 \in work_resolved[n]

\* the positions checked out over all nodes and intervals, one after another
RECURSIVE AllCheckedOut(_)
AllCheckedOut(n) ==
    IF n >= sc.count THEN <<>> ELSE checkedOut[n] \o AllCheckedOut(n + 1)

NoneTwice(q) == \A i, j \in DOMAIN q : i # j => q[i] # q[j]

\* C1: when all N nodes see the same live set and each processes every work
\* index from 0 to completion once, the positions checked out are dispensed
\* once and none twice, and they are exactly [0, min(total volume, len)).
C1_DatapoolNoDuplication ==
    AllProcessedAll =>
        /\ NoneTwice(AllCheckedOut(0))
        /\ {AllCheckedOut(0)[i] : i \in DOMAIN AllCheckedOut(0)}
               = 0..(Min(sc.target * sc.duration, sc.dplen) - 1)

\* C2: the shares of all node indices of one (node_count, target, offset)
\* add up to the target.
C2_SharesSumToTarget ==
    Len(ntv.results) = ntv.node_count => SumSeq(ntv.results) = ntv.target_volume

\* the remainder window wraps around the last node index
C2_Witness ==
    /\ Len(ntv.results) = ntv.node_count
    /\ ntv.node_count >= 3
    /\ ntv.target_volume % ntv.node_count > 0
    /\ (ntv.journey_offset % ntv.node_count)
           + (ntv.target_volume % ntv.node_count) > ntv.node_count
    /\ ntv.journey_offset >= ntv.node_count

\* the entry node n built for work index k
BuiltFor(n, k) == {i \in DOMAIN subvols[n] : subvols[n][i].index = k}

\* C3: nodes that hold the same live set and scenario compute the same
\* journey offset, and in every sub-second the shares the nodes take for
\* themselves add up to the journey's target volume.
C3_SameOffsetAndSharesAddUp ==
    \A k \in 0..WorkHorizon :
        (\A n \in Live : BuiltFor(n, k) # {}) =>
            /\ \A m, n \in Live : JourneyOffset(m) = JourneyOffset(n)
            /\ \A p \in 1..Cardinality(SubSeconds(k)) :
                  SumOver([n \in Live |->
                              subvols[n][CHOOSE i \in BuiltFor(n, k) : TRUE].volumes[p]],
                          Live)
                      = VolumeTarget(k * sc.interval + p - 1)

\* C4: merge is commutative, associative and idempotent on the complete
\* add_set / remove_set contents.
C4_MergeLaws ==
    mpc = 2 =>
        /\ mset.AB_C = mset.A_BC
        /\ mset.AB_C = mset.AC_B
        /\ mset.AB = mset.BA
        /\ mset.AA = mset.A

\* the claim's reading of "present": add timestamp greater than remove
\* timestamp, a side without a timestamp counting as 0
ClaimPresent(s, k) ==
    (IF s.add_set[k].st = "entry" THEN s.add_set[k].ts ELSE 0)
        > (IF s.remove_set[k].st = "entry" THEN s.remove_set[k].ts ELSE 0)

\* C6: after any sequence of add, remove and merge, lookup(k) and keys()
\* report k present if and only if its add timestamp is greater than its
\* remove timestamp; equal timestamps give absent.
C6_PresentIffAddNewer ==
    /\ ret.op = "lookup" => (Truthy(ret.value) <=> ClaimPresent(lww, ret.key))
    /\ ret.op \in {"keys", "values"} =>
           ret.keys = {k \in LKeys : ClaimPresent(lww, k)}

\* keys() has run on a set that holds a tie, a removed-only key's peer that
\* is present, and so reports one key of two
C6_Witness ==
    /\ ret.op = "keys"
    /\ ret.keys = {"b"}
    /\ lww.add_set["a"].st = "entry"
    /\ lww.remove_set["a"].st = "entry"
    /\ lww.add_set["a"].ts = lww.remove_set["a"].ts

\* a payload that fails deserialization or schema validation: no LWW map,
\* or a map with a key that is no string or an entry without a
\* non-negative timestamp
ClaimInvalid(p) ==
    \/ p.kind # "map"
    \/ \E k \in DOMAIN p.add_set :
          k = NoneId \/ p.add_set[k].st # "entry" \/ p.add_set[k].ts < 0
    \/ \E k \in DOMAIN p.remove_set :
          k = NoneId \/ p.remove_set[k].st # "entry" \/ p.remove_set[k].ts < 0

\* C10: a request whose payload fails deserialization or validation is
\* answered with an empty payload and leaves every LWW set of the local
\* state as it was, and the listen loop is alive after every reply.
C10_InvalidRequestRejected ==
    /\ \A n \in Nodes :
          (listening[n] /\ routerIn[n] # <<>>
              /\ ClaimInvalid(Head(routerIn[n]).payload)) =>
             LET r == ListenStep(gstate[n], Head(routerIn[n]))
             IN  r.reply = EmptyBytes /\ r.state = gstate[n]
    /\ extIn # <<>> => listening[RouterNode]

\* the router answered an invalid request with b"" and then served a valid
\* one, whose entry it merged
C10_Witness ==
    /\ Len(extIn) = 2
    /\ extIn[1] = EmptyBytes
    /\ extIn[2].kind = "map"
    /\ "n2" \in LwwKeys(gstate[RouterNode]["node_register"])
    /\ listening[RouterNode]

\* the present elements of a set with their metadata
PresentWithMeta(s) == [k \in LwwKeys(s) |-> s.add_set[k].meta]

Converged ==
    \A m, n \in Nodes :
        \A key \in {"node_register", "scenarios"} :
            PresentWithMeta(gstate[m][key]) = PresentWithMeta(gstate[n][key])

\* the nodes run and one of them holds every node in its register
Clustered ==
    /\ \A n \in Nodes : life[n] = "running"
    /\ \E n \in Nodes : LwwKeys(gstate[n]["node_register"]) = Nodes

\* C5: once the nodes run as one cluster, with every request delivered and
\* no local update, repeated gossip rounds eventually leave node_register
\* and scenarios with the same present elements and metadata on every node.
C5_GossipConverges == <>Clustered => <>[]Converged

\* task t of node n is in send() and its poll is about to time out
TimingOut(n, t) ==
    /\ task[n][t].pc = "wait"
    /\ dealerIn[n] = <<>>
    /\ ~Answering(n, Head(task[n][t].todo).sock)

\* C7: when a send gets no reply within the poll timeout, whatever key was
\* being sent, node_id is absent from state["node_register"] afterwards, the
\* socket is out of the connection pool, and the sets of the keys that are
\* neither node_register nor the key sent are as they were.
C7_TimeoutEvictsPeer ==
    \A n \in Nodes, t \in Tasks :
        TimingOut(n, t) =>
            LET nb == Head(task[n][t].todo)
                key == Head(task[n][t].keys)
                r == SendTimeout(gstate[n], connected[n], nb.nid, nb.sock, key, now)
            IN  /\ nb.nid \notin LwwKeys(r.state["node_register"])
                /\ nb.sock \notin r.pool
                /\ \A k \in StateKeys \ {"node_register", key} :
                      r.state[k] = gstate[n][k]

\* C9: from the removal in shutdown() on, through the final round and after
\* close(), the node's identity is not present in its own node_register.
C9_NoReAddAfterShutdown ==
    \A n \in Nodes :
        life[n] \in {"final", "closed"} =>
            n \notin LwwKeys(gstate[n]["node_register"])

\* the send() calls of node n that have sent their request and not yet
\* taken a reply or timed out
InFlight(n) == {t \in Tasks : task[n][t].pc = "wait"}

\* C11: at most one request is in flight on a node's dealer socket at any
\* time, whichever coroutines (update_loop, shutdown, a web handler) gossip.
C11_OneRequestInFlight ==
    \A n \in Nodes : Cardinality(InFlight(n)) <= 1


\* the resolve loop has exited and every spawn_journeys task has returned
ResolveEnded == ~smRunning[0] /\ spawnTasks = <<>>

\* C12: a scenario of one constant-volume journey (target T, duration D a
\* positive multiple of the interval, no datapool) on one node has spawned
\* exactly T x D journeys when its resolve loop and spawn tasks have ended,
\* whatever the scenario's delay and the instant the scheduler found it.
C12_SpawnsTargetTimesDuration ==
    (ResolveEnded /\ sc.duration > 0 /\ sc.duration % sc.interval = 0)
        => total_spawned_journeys = sc.target * sc.duration

SubBefore(a, b) == a[1] < b[1] \/ (a[1] = b[1] /\ a[2] < b[2])

\* C19: the journeys of sub-interval i of work index k are spawned before
\* those of every later sub-interval and of every later work index: no
\* spawn_journeys task still has to spawn a sub-interval that comes before
\* one already spawned.
C19_SpawnsInTimeOrder ==
    \A j \in 1..Len(spawnTasks) :
        LET t == spawnTasks[j]
        IN  (highSpawn # <<>> /\ t.volumes[t.pos + 1] > 0)
                => ~SubBefore(<<t.index, t.pos>>, highSpawn)

\* the datapool cursor of node n after it has processed the work indices
\* 0..k-1 in turn, as work() advances it
RECURSIVE ReplayIndex(_, _)
ReplayIndex(n, k) ==
    IF k = 0 THEN 0
    ELSE LET j == k - 1
             prev == ReplayIndex(n, j)
             totals == NodeTotalJourneys(n, j)
             total_journey_calls == SumOver(totals, DOMAIN totals)
             index0 == IF j > 0 /\ prev = 0
                       THEN CumulativeVolume(0, j * sc.interval - 1)
                       ELSE prev
         IN  IF (\E c \in 0..(j - 1) : CompleteHit(c)) \/ total_journey_calls = 0
             THEN prev
             ELSE index0 + total_journey_calls

\* the positions node n checks out in work index k after it has processed
\* 0..k-1 in turn
ReplayCheckout(n, k) ==
    LET totals == NodeTotalJourneys(n, k)
        total_journey_calls == SumOver(totals, DOMAIN totals)
        prev == ReplayIndex(n, k)
        index0 == IF k > 0 /\ prev = 0
                  THEN CumulativeVolume(0, k * sc.interval - 1)
                  ELSE prev
        checkout_start ==
            index0 + SumOver(totals, {i \in DOMAIN totals : i < NodeIndexOf(n)})
        checkout_stop == checkout_start + totals[NodeIndexOf(n)]
    IN  IF (\E c \in 0..(k - 1) : CompleteHit(c)) \/ total_journey_calls = 0
           \/ checkout_start > sc.dplen
        THEN <<>>
        ELSE IterableCheckout(sc.dplen, checkout_start, checkout_stop)

Positions(q) == {q[i] : i \in DOMAIN q}

\* node n has processed work index k > 0 and no other: it joined late
JoinedLateAt(n, k) == k > 0 /\ work_resolved[n] = {k}

\* C14: a node whose first processed work index is k > 0 checks out in
\* interval k the positions it would have checked out after processing
\* 0..k-1, and none that a node has checked out in the intervals before k,
\* with a constant and with a ramped volume model.
C14_LateJoinFastForward ==
    \A n \in Live : \A k \in 1..WorkHorizon :
        JoinedLateAt(n, k) =>
            /\ checkedOut[n] = ReplayCheckout(n, k)
            /\ \A m \in Live \ {n} :
                   work_resolved[m] \subseteq 0..(k - 1) =>
                       Positions(checkedOut[n]) \cap Positions(checkedOut[m]) = {}

\* a node joined late under a ramped model, past positions other nodes took
C14_Witness ==
    \E n \in Live : \E k \in 1..WorkHorizon :
        /\ JoinedLateAt(n, k)
        /\ sc.dynamic /\ sc.ramp_up > 0
        /\ checkedOut[n] # <<>>
        /\ ReplayIndex(n, k) > 0
        /\ \E m \in Live \ {n} :
               /\ work_resolved[m] = 0..(k - 1)
               /\ checkedOut[m] # <<>>

\* the journeys node n was to run itself over the intervals it has built
RECURSIVE OwnShares(_)
OwnShares(q) == IF q = <<>> THEN 0 ELSE SumSeq(Head(q).volumes) + OwnShares(Tail(q))

\* C15: with a recyclable datapool every slice work() hands to spawn_journeys
\* holds as many items as the node's share of the interval, however far the
\* cursor has moved past the length of the pool.
C15_RecyclableYieldsShare ==
    \A n \in Live : Len(checkedOut[n]) = OwnShares(subvols[n])

\* no task of the manager of s is left: its resolve task is done and no
\* spawn_journeys or journey task is alive
AllTasksDone(s) ==
    /\ mgr[s].rtask \in {"none", "done"}
    /\ mgr[s].bg = 0 /\ mgr[s].cancelling = 0 /\ mgr[s].orphan = 0

\* C17: when Scheduler.shutdown() has returned, every resolve task and every
\* spawn_journeys and journey task of every manager the scheduler started is
\* done, those created while shutdown() was waiting included.
C17_ShutdownLeavesNoTask ==
    sh.pc = "returned" => \A s \in GoodSpecs : AllTasksDone(s)

\* C18: an entry whose spec cannot be resolved gets no manager and does not
\* stop the scheduler: while it is present, the loop of run() keeps running
\* (and so goes on starting managers for the other entries).
C18_UnresolvableSpecSkipped ==
    BadSpec \in entries => sched.task # "failed"

\* the entry of s was added and is no longer present while its manager runs
RemovedWhileRunning(s) == s \notin entries /\ s \notin addLeft /\ mgr[s].running

\* C16: when an entry is no longer present in the scenarios set, the
\* scheduler, as long as its loop runs, eventually stops the manager it
\* started for that entry.
C16_RemovedEntryStopsManager ==
    [](sched.task = "sleep") =>
        \A s \in GoodSpecs : RemovedWhileRunning(s) ~> ~mgr[s].running

\* C20: a finished snapshot(reset) holds exactly the observations made
\* before one instant, and with reset exactly those are gone from the
\* families and every later one is still there.
C20_SnapshotAtomic ==
    snap.pc = "done" =>
        \E k \in 0..obsCount :
            /\ snap.got = 1..k
            /\ snap.reset =>
                   counterObs \cup histObs \cup eventObs = (k + 1)..obsCount

notWire == <<volVars, workVars, resolveVars, schedVars, metricVars, now, lwwVars,
             mergeVars, gossipVars, dp, vm, nreg, rs, lateVars>>

WireSpecInit ==
    /\ ntv = VolIdle /\ WorkIdle /\ ResolveIdle /\ SchedIdle /\ MetricIdle
    /\ LwwIdle /\ MergeIdle /\ GossipIdle
    /\ WireInit /\ dp = PoolIdle /\ vm = VmIdle /\ nreg = RegIdle /\ rs = RsIdle
    /\ LateIdle

WireNext ==
    \/ WireSerialize /\ UNCHANGED notWire
    \/ WireDeserialize /\ UNCHANGED notWire

SpecWire == WireSpecInit /\ [][WireNext]_vars

\* C21: for every set whose to_dict() passes validate_lww_dict, serialize_lww
\* succeeds, deserialize_lww accepts its bytes, and the set built has the
\* same add_set and remove_set: same keys, timestamps and metadata.
C21_RoundTrip ==
    ValidateLwwDict(WToDict(wire.set)) =>
        /\ wire.pc \notin {"serr", "derr"}
        /\ wire.pc = "done" => wire.out.set = wire.set

\* the share the closed form gives node n: target // count, plus one when n
\* is among the (target mod count) nodes that follow offset mod count
ClosedFormShare(n, node_count, target, offset) ==
    IF (n - offset) % node_count < target % node_count
    THEN target \div node_count + 1
    ELSE target \div node_count

\* C22: for every node index below node_count, node_target_volume returns
\* target // node_count, plus one exactly when (n - offset) mod node_count is
\* below target mod node_count; the shares of two nodes differ by at most 1.
C22_ShareClosedForm ==
    /\ \A i \in 1..Len(ntv.results) :
          ntv.results[i] = ClosedFormShare(i - 1, ntv.node_count,
                                           ntv.target_volume, ntv.journey_offset)
    /\ \A i, j \in 1..Len(ntv.results) :
          ntv.results[i] - ntv.results[j] \in {-1, 0, 1}

\* every node of a cluster of three or more has its share, with a remainder
\* window that starts at a non-zero node and wraps around the last index
C22_Witness ==
    /\ Len(ntv.results) = ntv.node_count
    /\ ntv.node_count >= 3
    /\ ntv.target_volume > ntv.node_count
    /\ ntv.journey_offset % ntv.node_count = ntv.node_count - 1
    /\ ntv.target_volume % ntv.node_count = 2
    /\ ntv.results[1] = ntv.results[ntv.node_count]
    /\ ntv.results[1] = ntv.results[2] + 1

notPool == <<volVars, workVars, resolveVars, schedVars, metricVars, now, lwwVars,
             mergeVars, gossipVars, wire, vm, nreg, rs, lateVars>>

PoolSpecInit ==
    /\ ntv = VolIdle /\ WorkIdle /\ ResolveIdle /\ SchedIdle /\ MetricIdle
    /\ LwwIdle /\ MergeIdle /\ GossipIdle
    /\ wire = WireIdle /\ PoolInit /\ vm = VmIdle /\ nreg = RegIdle /\ rs = RsIdle
    /\ LateIdle

PoolNext ==
    \/ CheckoutIterable /\ UNCHANGED notPool
    \/ CheckoutRecyclable /\ UNCHANGED notPool
    \/ CheckoutFile /\ UNCHANGED notPool
    \/ CheckoutRecyclableFile /\ UNCHANGED notPool

SpecPool == PoolSpecInit /\ [][PoolNext]_vars

\* the positions start, ..., len - 1, 0, ..., start - 1
WholePoolFrom(len, start) ==
    [p \in 1..len |-> (start + p - 1) % len]

\* C23: on a recyclable pool of length L >= 1, in memory or file-backed, and
\* for every start s with 0 <= s < L, checkout(s, (s + L) mod L) yields every
\* element of the pool exactly once, from position s on and wrapping around.
C23_RecyclableFullCycle ==
    (0 <= dp.start /\ dp.start < dp.len /\ dp.stop = (dp.start + dp.len) % dp.len) =>
        /\ dp.recyclable # NotCalled =>
              dp.recyclable = Yields(WholePoolFrom(dp.len, dp.start))
        /\ dp.recyclable_file # NotCalled =>
              dp.recyclable_file = Yields(WholePoolFrom(dp.len, dp.start))

\* what the items at [start, stop), and for stop < start on a recyclable
\* pool [start, len) followed by [0, stop), are
PositionsOf(len, start, stop) ==
    IF stop < start THEN Slice(len, start, len) \o Slice(len, 0, stop)
    ELSE Slice(len, start, stop)

\* C24: over the same lines and for 0 <= start <= len, 0 <= stop, the
\* file-backed pools yield the sequence the in-memory pools yield: the items
\* at [start, stop) when start <= stop (nothing when start = stop), and for
\* the recyclable pools [start, len) then [0, stop) when stop < start.
C24_FileMatchesMemory ==
    (0 <= dp.start /\ dp.start <= dp.len /\ 0 <= dp.stop) =>
        /\ (dp.start <= dp.stop /\ dp.file # NotCalled) =>
              dp.file = Yields(PositionsOf(dp.len, dp.start, dp.stop))
        /\ (dp.start <= dp.stop /\ dp.iterable # NotCalled) =>
              dp.iterable = Yields(PositionsOf(dp.len, dp.start, dp.stop))
        /\ dp.recyclable_file # NotCalled =>
              dp.recyclable_file = Yields(PositionsOf(dp.len, dp.start, dp.stop))
        /\ dp.recyclable # NotCalled =>
              dp.recyclable = Yields(PositionsOf(dp.len, dp.start, dp.stop))

\* C25: on the non-recyclable pools, in memory and file-backed, checkout
\* raises and yields nothing when start < 0, stop < 0, start > len or
\* stop < start.
C25_InvalidCheckoutRaises ==
    (dp.start < 0 \/ dp.stop < 0 \/ dp.start > dp.len \/ dp.stop < dp.start) =>
        /\ dp.iterable # NotCalled => dp.iterable = Raised
        /\ dp.file # NotCalled => dp.file = Raised

notVm == <<volVars, resolveVars, schedVars, metricVars, now, lwwVars,
           mergeVars, gossipVars, wire, dp, nreg, rs, lateVars>>

VmSpecInit ==
    /\ ntv = VolIdle /\ ResolveIdle /\ SchedIdle /\ MetricIdle
    /\ LwwIdle /\ MergeIdle /\ GossipIdle
    /\ wire = WireIdle /\ dp = PoolIdle /\ VmInit /\ nreg = RegIdle /\ rs = RsIdle
    /\ LateIdle

VmNext == VmCall /\ UNCHANGED notVm

SpecVolumeModel == VmSpecInit /\ [][VmNext]_vars

\* C26: a constant VolumeModel with a finite duration D >= 0 returns its
\* target for every 0 <= t < D and signals journey complete for every
\* t >= D; with no duration it never signals complete.
C26_ConstantVolume ==
    (vm.called /\ ~sc.dynamic) =>
        IF vm.no_duration THEN ~vm.complete /\ vm.volume = sc.target
        ELSE IF vm.time_delta < sc.duration
             THEN ~vm.complete /\ vm.volume = sc.target
             ELSE vm.complete

\* the volume the three-branch rule gives, ramp_down being the length of
\* the final ramp; a ramp of 0 is a ramp the model was not given
RampRule(time_delta) ==
    IF sc.ramp_up # 0 /\ time_delta <= sc.ramp_up
    THEN CeilDiv(sc.target * time_delta, sc.ramp_up)
    ELSE IF sc.ramp_down # 0 /\ time_delta >= sc.duration - sc.ramp_down
         THEN CeilDiv(sc.target * (sc.duration - time_delta), sc.ramp_down)
         ELSE sc.target

\* C27: a DynamicVolumeModel called with an integer t in [0, duration)
\* returns ceil(target * t / ramp_up) if t <= ramp_up, otherwise
\* ceil(target * (duration - t) / ramp_down) if t >= duration - ramp_down,
\* otherwise target, ramp_down being the length in seconds of the final ramp.
C27_DynamicVolume ==
    (vm.called /\ sc.dynamic /\ vm.time_delta < sc.duration) =>
        ~vm.complete /\ vm.volume = RampRule(vm.time_delta)

notReg == <<volVars, workVars, resolveVars, schedVars, metricVars, now, lwwVars,
            mergeVars, gossipVars, wire, dp, vm, rs, lateVars>>

RegSpecInit ==
    /\ ntv = VolIdle /\ WorkIdle /\ ResolveIdle /\ SchedIdle /\ MetricIdle
    /\ LwwIdle /\ MergeIdle /\ GossipIdle
    /\ wire = WireIdle /\ dp = PoolIdle /\ vm = VmIdle /\ RegInit /\ rs = RsIdle
    /\ LateIdle

RegNext ==
    \/ RegAdd /\ UNCHANGED notReg
    \/ RegRemove /\ UNCHANGED notReg
    \/ RegMerge /\ UNCHANGED notReg
    \/ ReadCount /\ UNCHANGED notReg
    \/ ReadIndex /\ UNCHANGED notReg

SpecRegister == RegSpecInit /\ [][RegNext]_vars

\* the identities present in the register: added later than removed
RegPresent == {k \in RKeys : ClaimPresent(nreg.node_register, k)}

\* C28: after any sequence of add, remove and merge on node_register, the
\* value Node.count returns is the number of entries present and the value
\* Node.index returns is the position of the node's identity among the
\* sorted present identities, or None when it is absent.
C28_CachedViewFresh ==
    /\ nreg.ret.op = "count" => nreg.ret.value = Cardinality(RegPresent)
    /\ nreg.ret.op = "index" =>
          nreg.ret.value = IF RegSelf \in RegPresent
                           THEN Cardinality({k \in RegPresent : k < RegSelf})
                           ELSE NoneInt

\* index is read after the present set changed, under a cache that held a
\* value, to another set of the same size in which the node has moved
C28_Witness ==
    /\ nreg.ret.op = "index"
    /\ nreg.refreshed
    /\ nreg.ret.value = 0
    /\ nreg._cached_node_keys.keys = {2, 3}

notClock == <<volVars, workVars, resolveVars, schedVars, metricVars, now, lwwVars,
              mergeVars, gossipVars, wire, dp, vm, nreg, lateVars>>

ClockSpecInit ==
    /\ ntv = VolIdle /\ WorkIdle /\ ResolveIdle /\ SchedIdle /\ MetricIdle
    /\ LwwIdle /\ MergeIdle /\ GossipIdle
    /\ wire = WireIdle /\ dp = PoolIdle /\ vm = VmIdle /\ nreg = RegIdle /\ ClockInit
    /\ LateIdle

ClockNext ==
    \/ ClockTick /\ UNCHANGED notClock
    \/ ClockWake /\ UNCHANGED notClock
    \/ ClockCheck /\ UNCHANGED notClock
    \/ ClockSkip /\ UNCHANGED notClock
    \/ ClockRecord /\ UNCHANGED notClock
    \/ ClockWork /\ UNCHANGED notClock

SpecClock == ClockSpecInit /\ [][ClockNext]_vars

\* C29: the work of a work index is built and spawned at most once, for
\* every timing of the clock reads of the already-processed check, of the
\* recording of the index and of work().
C29_BuiltAtMostOnce ==
    rs.pc # "idle" => \A i \in DOMAIN rs.built : rs.built[i] <= 1

\* C30: every LWW set a node reaches through add, remove, lookup, keys,
\* values, merge and the removal on a send timeout (the bootstrap send with
\* node_id None included) serializes to a payload that deserialize_lww
\* accepts: every key of add_set and remove_set is a string and every entry
\* has a numeric timestamp.
C30_ReachableSetsDeserialize ==
    \A n \in Nodes : \A key \in DOMAIN gstate[n] :
        Deserializes(SerializeLww(gstate[n][key]))

notCursor == <<volVars, workVars, resolveVars, schedVars, metricVars, now, lwwVars,
               mergeVars, gossipVars, wire, dp, vm, nreg, rs, ctx, sp, mc>>

CursorSpecInit ==
    /\ ntv = VolIdle /\ ResolveIdle /\ SchedIdle /\ MetricIdle
    /\ LwwIdle /\ MergeIdle /\ GossipIdle
    /\ wire = WireIdle /\ dp = PoolIdle /\ vm = VmIdle /\ nreg = RegIdle /\ rs = RsIdle
    /\ CursorInit /\ ctx = ContextIdle /\ sp = SpawnIdle /\ mc = CountersIdle

CursorNext ==
    \/ CursorWork /\ UNCHANGED notCursor
    \/ CursorSleep /\ UNCHANGED notCursor

SpecCursor == CursorSpecInit /\ [][CursorNext]_vars

\* the volume of all nodes over the work intervals 0..k-1
TotalBefore(k) ==
    LET S == {t \in 0..(k * sc.interval - 1) : ~VolumeComplete(t)}
    IN  SumOver([t \in S |-> VolumeTarget(t)], S)

\* C31: when a node checks out its slice for work index k, the datapool
\* cursor is the total volume of all nodes over the intervals 0..k-1,
\* whichever of them the node processed, slept through, or processed while
\* its identity was not in the live set.
C31_CursorAligned ==
    (cview.pc # "idle" /\ cview.last.op = "checkout") =>
        cview.last.cursor = TotalBefore(cview.last.k)

\* C39: work() returns without raising under every view of the live set,
\* the empty one (count = 0) and one without the node (index None)
\* included, and in both cases it hands this node nothing to spawn.
C39_WorkCompletes ==
    cview.pc # "idle" =>
        /\ cview.last.op # "raised"
        /\ (cview.last.node_count = 0 \/ cview.last.node_index = NoneInt) =>
               cview.last.volumes = <<>>

\* C32: a ScenarioManager never builds or spawns the work of a negative
\* work index: no journey is spawned before start_time = init_time + delay,
\* whatever the delay, the interval and the instant of discovery.
C32_NoWorkBeforeStart ==
    /\ \A k \in work_resolved[0] : k >= 0
    /\ \A j \in 1..Len(spawnTasks) : spawnTasks[j].index >= 0
    /\ total_spawned_journeys > 0 => elapsed >= 0

\* the specs whose ScenarioManager is in scenario_managers
ManagedSpecs == {scenario_managers[i] : i \in 1..Len(scenario_managers)}

\* C33: at the end of every poll of the scheduler the spec list, the task
\* map and the manager list correspond one to one: a manager is in
\* scenario_managers exactly when its spec is in scenarios and its resolve
\* task in the task map.
C33_ListsCorrespond ==
    (sched.running /\ sh.pc = "idle") =>
        /\ ManagedSpecs = scenarios
        /\ scenario_tasks = scenarios
        /\ Len(scenario_managers) = Cardinality(ManagedSpecs)

\* the manager of s has completed and been purged, and the entry is present
PurgedAndPresent(s) ==
    /\ mgr[s].made /\ mgr[s].finite /\ mgr[s].rtask = "done"
    /\ s \notin scenarios
    /\ s \in entries
    /\ sh.pc = "idle"

\* C34: once the ScenarioManager of a finite scenario has completed and
\* been purged, the Scheduler starts no other manager for that entry while
\* the entry stays in the scenarios set.
C34_NoRestartAfterPurge ==
    [][\A s \in GoodSpecs : PurgedAndPresent(s) => s \notin scenarios']_vars

\* C35: lookup(), keys() and values() are read-only: a call leaves every
\* entry of add_set and remove_set as it was, for present, removed and
\* never-seen elements alike.
C35_ReadsAreReadOnly ==
    [][ret'.op \in {"lookup", "keys", "values"} => lww' = lww]_vars

\* C36: the reply a send(node_id, socket, key, state) consumes is the reply
\* to its own request: it comes from the peer at socket and carries key,
\* also when an earlier request timed out and its reply arrives late.
C36_ReplyMatchesRequest ==
    \A n \in Nodes : \A t \in Tasks :
        (task[n][t].pc = "wait" /\ dealerIn[n] # <<>>) =>
            /\ Head(dealerIn[n]).from = Head(task[n][t].todo).sock
            /\ Head(dealerIn[n]).key = Head(task[n][t].keys)

(***************************************************************************)
(* SpecSpawn: one call of ScenarioManager.spawn_journeys and the journey   *)
(* tasks it creates.  journey_separation is counted in half seconds, so    *)
(* that int(interval / journey_separation) is exact; journey_spawns has    *)
(* one entry per second of the interval, as work() builds it; chunk is the *)
(* number of items left in datapool_chunk, NoneInt when there is none.     *)
(* ctx holds one record per Context constructed: the state of its journey  *)
(* task ("none" when no task was created) and the number of close() calls. *)
(***************************************************************************)
SpawnIterations(s) == (2 * s.interval) \div s.separation

NewTasks(n) == [j \in 1..n |-> [task |-> "new", closes |-> 0]]

\* the inner loop of one sub-interval: a Context per journey, and on
\* StopIteration a Context without a task
SpawnContexts(v, chunk) ==
    IF chunk = NoneInt THEN NewTasks(v)
    ELSE IF chunk >= v THEN NewTasks(v)
    ELSE NewTasks(chunk) \o <<[task |-> "none", closes |-> 0]>>

SpawnedOf(v, chunk) == IF chunk = NoneInt THEN v ELSE Min(v, chunk)

\* the body of the outer loop for interval_idx = i, up to its sleep
SpawnBody(i) ==
    IF i >= SpawnIterations(sp) \/ i + 1 > Len(sp.journey_spawns)
    THEN /\ sp' = [sp EXCEPT !.pc = "done"]
         /\ UNCHANGED ctx
    ELSE LET v == sp.journey_spawns[i + 1]
         IN  /\ ctx' = ctx \o SpawnContexts(v, sp.chunk)
             /\ sp' = [sp EXCEPT !.pc = "sleep",
                                 !.interval_idx = i,
                                 !.chunk = IF @ = NoneInt THEN @ ELSE @ - SpawnedOf(v, @),
                                 !.total_spawned_journeys = @ + SpawnedOf(v, sp.chunk)]

SpawnInit ==
    /\ \E iv \in 1..MaxInterval, sep \in 1..MaxSeparation, c \in {NoneInt} \cup 0..MaxChunk :
       \E js \in [1..iv -> 0..MaxVolume] :
           sp = [pc |-> "new", interval |-> iv, separation |-> sep,
                 journey_spawns |-> js, chunk0 |-> c, chunk |-> c,
                 interval_idx |-> 0, total_spawned_journeys |-> 0,
                 cancelled |-> FALSE]
    /\ ctx = <<>>

SpawnStart ==
    /\ sp.pc = "new"
    /\ SpawnBody(0)

SpawnWake ==
    /\ sp.pc = "sleep"
    /\ SpawnBody(sp.interval_idx + 1)

\* the first step of _run_journey_with_context: async with context
TaskStart(j) ==
    /\ ctx[j].task = "new"
    /\ ctx' = [ctx EXCEPT ![j].task = "running"]
    /\ UNCHANGED sp

TaskReturn(j) ==
    /\ ctx[j].task = "running"
    /\ ctx' = [ctx EXCEPT ![j].task = "returned", ![j].closes = @ + 1]
    /\ UNCHANGED sp

TaskRaise(j) ==
    /\ ctx[j].task = "running"
    /\ ctx' = [ctx EXCEPT ![j].task = "raised", ![j].closes = @ + 1]
    /\ UNCHANGED sp

\* cancel_tasks: a task that never ran a step ends without entering its
\* coroutine; a running one gets CancelledError inside async with
CancelOne(c) ==
    IF c.task = "new" THEN [c EXCEPT !.task = "cancelled"]
    ELSE IF c.task = "running" THEN [c EXCEPT !.task = "cancelled", !.closes = @ + 1]
    ELSE c

CancelTasks ==
    /\ sp.pc \in {"new", "sleep"} \/ \E j \in 1..Len(ctx) : ctx[j].task \in {"new", "running"}
    /\ ctx' = [j \in 1..Len(ctx) |-> CancelOne(ctx[j])]
    /\ sp' = IF sp.pc \in {"new", "sleep"}
             THEN [sp EXCEPT !.pc = "done", !.cancelled = TRUE]
             ELSE sp

notSpawn == <<volVars, workVars, resolveVars, schedVars, metricVars, now, lwwVars,
              mergeVars, gossipVars, wire, dp, vm, nreg, rs, cview, mc>>

SpawnSpecInit ==
    /\ ntv = VolIdle /\ WorkIdle /\ ResolveIdle /\ SchedIdle /\ MetricIdle
    /\ LwwIdle /\ MergeIdle /\ GossipIdle
    /\ wire = WireIdle /\ dp = PoolIdle /\ vm = VmIdle /\ nreg = RegIdle /\ rs = RsIdle
    /\ cview = CursorIdle /\ mc = CountersIdle /\ SpawnInit

SpawnNext ==
    \/ SpawnStart /\ UNCHANGED notSpawn
    \/ SpawnWake /\ UNCHANGED notSpawn
    \/ (\E j \in 1..Len(ctx) : TaskStart(j)) /\ UNCHANGED notSpawn
    \/ (\E j \in 1..Len(ctx) : TaskReturn(j)) /\ UNCHANGED notSpawn
    \/ (\E j \in 1..Len(ctx) : TaskRaise(j)) /\ UNCHANGED notSpawn
    \/ CancelTasks /\ UNCHANGED notSpawn

SpecSpawn == SpawnSpecInit /\ [][SpawnNext]_vars

SpawnSettled ==
    /\ sp.pc = "done"
    /\ \A j \in 1..Len(ctx) : ctx[j].task \notin {"new", "running"}

\* C37: every Context spawn_journeys constructs is closed exactly once:
\* never twice, and once when its journey has returned, raised or been
\* cancelled, or when the datapool slice was exhausted before the task
\* was created.
C37_ClosedExactlyOnce ==
    /\ \A j \in 1..Len(ctx) : ctx[j].closes <= 1
    /\ SpawnSettled => \A j \in 1..Len(ctx) : ctx[j].closes = 1

\* C38: a spawn_journeys that ran to its end with a datapool slice that was
\* not exhausted has spawned the sum of journey_spawns, for every
\* journey_separation.
C38_SpawnsAllShares ==
    (sp.pc = "done" /\ ~sp.cancelled
        /\ (sp.chunk0 = NoneInt \/ sp.chunk0 >= SumSeq(sp.journey_spawns))) =>
        sp.total_spawned_journeys = SumSeq(sp.journey_spawns)

(***************************************************************************)
(* SpecCounters: MetricCollector.inc against MetricCollector.snapshot,     *)
(* each in a thread of its own.  names is the key order of                 *)
(* MetricCollector._counters; every counter has one labelset, held[n] is   *)
(* its value.  made[n] is the sum of the increments made on n and          *)
(* reported[n] the sum of the values the reset snapshots that returned     *)
(* have reported for n.  snapshot() walks _counters.items() with no lock   *)
(* held on the dict, one counter per step; the dict iterator raises        *)
(* RuntimeError when the dict has changed size since the walk began.       *)
(***************************************************************************)
CounterNames == {"a", "b"}

NoCounts == [n \in CounterNames |-> 0]

SeqNames(s) == {s[i] : i \in 1..Len(s)}

CountersInit ==
    mc = [names |-> <<>>, held |-> NoCounts, made |-> NoCounts, reported |-> NoCounts,
          w |-> [pc |-> "idle", name |-> "a"],
          snap |-> [pc |-> "idle", reset |-> FALSE, size |-> 0, todo |-> <<>>,
                    got |-> NoCounts],
          incs |-> 0, snaps |-> 0, raised |-> 0]

\* MetricCollector.inc: register_counter, under MetricCollector._lock
IncRegister(n) ==
    /\ mc.w.pc = "idle"
    /\ mc.incs < MaxIncs
    /\ mc' = [mc EXCEPT !.w = [pc |-> "registered", name |-> n],
                        !.incs = @ + 1,
                        !.names = IF n \in SeqNames(@) THEN @ ELSE Append(@, n)]

\* MetricCollector.inc: counter.inc, under the counter's lock
IncAdd ==
    /\ mc.w.pc = "registered"
    /\ mc' = [mc EXCEPT !.w.pc = "idle",
                        !.held[mc.w.name] = @ + 1,
                        !.made[mc.w.name] = @ + 1]

\* MetricCollector.snapshot(reset) begins the walk over _counters.items()
CountersSnapshotCall ==
    /\ mc.snap.pc = "idle"
    /\ mc.snaps < MaxSnaps
    /\ \E r \in BOOLEAN :
           mc' = [mc EXCEPT !.snaps = @ + 1,
                            !.snap = [pc |-> "iter", reset |-> r, size |-> Len(mc.names),
                                      todo |-> mc.names, got |-> NoCounts]]

\* CounterMetric.snapshot(reset) of the next counter, under its lock
CountersSnapshotOne ==
    /\ mc.snap.pc = "iter"
    /\ Len(mc.names) = mc.snap.size
    /\ mc.snap.todo # <<>>
    /\ LET n == Head(mc.snap.todo)
       IN  mc' = [mc EXCEPT !.snap.todo = Tail(@),
                            !.snap.got[n] = mc.held[n],
                            !.held[n] = IF mc.snap.reset THEN 0 ELSE @]

\* the dict iterator finds the dict changed: snapshot() ends with RuntimeError
CountersSnapshotRaise ==
    /\ mc.snap.pc = "iter"
    /\ Len(mc.names) # mc.snap.size
    /\ mc' = [mc EXCEPT !.snap.pc = "idle", !.raised = @ + 1]

\* the walk is over: snapshot() returns what it has read
CountersSnapshotReturn ==
    /\ mc.snap.pc = "iter"
    /\ Len(mc.names) = mc.snap.size
    /\ mc.snap.todo = <<>>
    /\ mc' = [mc EXCEPT !.snap.pc = "idle",
                        !.reported = IF mc.snap.reset
                                     THEN [n \in CounterNames |-> @[n] + mc.snap.got[n]]
                                     ELSE @]

notCounters == <<volVars, workVars, resolveVars, schedVars, metricVars, now, lwwVars,
                 mergeVars, gossipVars, wire, dp, vm, nreg, rs, cview, ctx, sp>>

CountersSpecInit ==
    /\ ntv = VolIdle /\ WorkIdle /\ ResolveIdle /\ SchedIdle /\ MetricIdle
    /\ LwwIdle /\ MergeIdle /\ GossipIdle
    /\ wire = WireIdle /\ dp = PoolIdle /\ vm = VmIdle /\ nreg = RegIdle /\ rs = RsIdle
    /\ cview = CursorIdle /\ ctx = ContextIdle /\ sp = SpawnIdle /\ CountersInit

CountersNext ==
    \/ (\E n \in CounterNames : IncRegister(n)) /\ UNCHANGED notCounters
    \/ IncAdd /\ UNCHANGED notCounters
    \/ CountersSnapshotCall /\ UNCHANGED notCounters
    \/ CountersSnapshotOne /\ UNCHANGED notCounters
    \/ CountersSnapshotRaise /\ UNCHANGED notCounters
    \/ CountersSnapshotReturn /\ UNCHANGED notCounters

SpecCounters == CountersSpecInit /\ [][CountersNext]_vars

\* C40: every increment is counted exactly once: whenever no snapshot is
\* in progress, for each counter the values the reset snapshots have
\* reported plus the value still held add up to the increments made.
C40_EveryIncrementCounted ==
    mc.snap.pc = "idle" =>
        \A n \in CounterNames : mc.reported[n] + mc.held[n] = mc.made[n]

=============================================================================
